---- MODULE Spec2Model ----
(***************************************************************************)
(* A model of the joker lexer of esprit (crates/joker/src/lexer.rs): the   *)
(* scanning engine, its one-token lookahead buffer and the driver-facing   *)
(* API, over inputs that are finite sequences of unicode code points.      *)
(*                                                                         *)
(* Characters are code points (naturals).  An Option<char> that the code   *)
(* matches on is the code point or None; an Option stored in a token or    *)
(* an error is the empty sequence (None) or a one-element sequence (Some). *)
(* A String is a sequence of code points.                                  *)
(***************************************************************************)
EXTENDS Integers, Sequences, FiniteSets, TLC

VARIABLES
    input,      \* the characters handed to Lexer::new (fixed for a run)
    debug,      \* TRUE: a build with debug assertions and overflow checks
    cx,         \* the shared Context cell: [operator |-> BOOLEAN]
    reader,     \* Lexer.reader: its position, and the panic it died of
    lookahead,  \* Lexer.lookahead: the buffered tokens
    held,       \* driver: the token it last obtained by value (<<>> or <<t>>)
    last,       \* history: the last API call and what it returned
    pushedBy,   \* history: the call that filled the buffer, "peek" or "unread"
    lastEnd     \* history: the end offset of the last freshly scanned token

vars == <<input, debug, cx, reader, lookahead, held, last, pushedBy, lastEnd>>

-----------------------------------------------------------------------------
(* Characters *)

\* Printable ASCII, code points 32..126, in order; DQ, SQ, BSL and BT name
\* the double quote, the single quote, the backslash and the backtick.
Ascii ==
    <<" ", "!", "DQ", "#", "$", "%", "&", "SQ", "(", ")", "*", "+", ",", "-",
      ".", "/", "0", "1", "2", "3", "4", "5", "6", "7", "8", "9", ":", ";",
      "<", "=", ">", "?", "@", "A", "B", "C", "D", "E", "F", "G", "H", "I",
      "J", "K", "L", "M", "N", "O", "P", "Q", "R", "S", "T", "U", "V", "W",
      "X", "Y", "Z", "[", "BSL", "]", "^", "_", "BT", "a", "b", "c", "d", "e",
      "f", "g", "h", "i", "j", "k", "l", "m", "n", "o", "p", "q", "r", "s",
      "t", "u", "v", "w", "x", "y", "z", "{", "|", "}", "~">>

\* The code point of a printable ASCII character, and of the control and
\* unicode characters the lexical grammar names.
Code ==
    [c \in {Ascii[i] : i \in 1..Len(Ascii)} |->
        31 + (CHOOSE i \in 1..Len(Ascii) : Ascii[i] = c)]
    @@ [BS |-> 8, TAB |-> 9, LF |-> 10, VT |-> 11, FF |-> 12, CR |-> 13,
        NBSP |-> 160, ZWNJ |-> 8204, ZWJ |-> 8205, LS |-> 8232, PS |-> 8233,
        BOM |-> 65279]

\* A string literal of the source, as the sequence of its code points.
S(chars) == [i \in 1..Len(chars) |-> Code[chars[i]]]

\* Option<char>::None, as returned by Reader::curr_char at end of input.
None == -1

\* Option<T> as stored in tokens and errors.
Some(x) == <<x>>
Opt(ch) == IF ch = None THEN <<>> ELSE <<ch>>

Between(ch, lo, hi) == Code[lo] <= ch /\ ch <= Code[hi]

\* char::is_digit(radix) and char::to_digit(radix) of the standard library.
is_digit(ch, radix) ==
    \/ Between(ch, "0", "9") /\ ch - Code["0"] < radix
    \/ Between(ch, "a", "z") /\ ch - Code["a"] + 10 < radix
    \/ Between(ch, "A", "Z") /\ ch - Code["A"] + 10 < radix

to_digit(ch, radix) ==
    IF Between(ch, "0", "9") THEN ch - Code["0"]
    ELSE IF Between(ch, "a", "z") THEN ch - Code["a"] + 10
    ELSE ch - Code["A"] + 10

\* char::is_alphabetic / is_lowercase, on the ASCII range.
is_alphabetic(ch) == Between(ch, "a", "z") \/ Between(ch, "A", "Z")
is_lowercase(ch) == Between(ch, "a", "z")

\* char::from_u32 of a u32 given as its 16-bit halves [hi, lo]: Some for
\* every scalar value up to 0x10FFFF but the surrogates 0xD800..0xDFFF.
from_u32_valid(code) ==
    /\ code.hi <= 16
    /\ ~(code.hi = 0 /\ 55296 <= code.lo /\ code.lo <= 57343)

\* The char that from_u32 gives for a valid code.
from_u32(code) == code.hi * 65536 + code.lo

\* The ESCharExt trait (char.rs).
is_es_newline(ch) == ch \in {Code.LF, Code.CR, Code.LS, Code.PS}

is_es_whitespace(ch) ==
    ch \in {Code.TAB, Code.VT, Code.FF, Code[" "], Code.NBSP, Code.BOM}

is_es_identifier_start(ch) ==
    is_alphabetic(ch) \/ ch = Code["$"] \/ ch = Code["_"]

is_es_identifier_continue(ch) ==
    \/ is_es_identifier_start(ch)
    \/ Between(ch, "0", "9")
    \/ ch \in {Code.ZWNJ, Code.ZWJ}

is_es_hex_digit(ch) == is_digit(ch, 16)
is_es_oct_digit(ch) == is_digit(ch, 8)
is_es_bin_digit(ch) == is_digit(ch, 2)

is_es_single_escape_char(ch) ==
    ch \in {Code.SQ, Code.DQ, Code.BSL, Code["b"], Code["f"],
            Code["n"], Code["r"], Code["t"], Code["v"]}

unescape(ch) ==
    CASE ch = Code["b"] -> Code.BS
      [] ch = Code["f"] -> Code.FF
      [] ch = Code["n"] -> Code.LF
      [] ch = Code["r"] -> Code.CR
      [] ch = Code["t"] -> Code.TAB
      [] ch = Code["v"] -> Code.VT
      [] OTHER -> ch

-----------------------------------------------------------------------------
(* Positions and the Reader *)

\* Posn::origin
origin == [offset |-> 0, line |-> 0, column |-> 0]

\* The reader over `src`: `m` is its position plus `fault`, the message of
\* the panic that has unwound the call ("" while none has), and `gets`, how
\* many times the lexer has read the shared context cell.
NewReader == [offset |-> 0, line |-> 0, column |-> 0, fault |-> "", gets |-> 0]

\* Reader::curr_posn
curr_posn(m) == [offset |-> m.offset, line |-> m.line, column |-> m.column]

\* Reader::curr_char / Reader::next_char
curr_char(src, m) ==
    IF m.offset < Len(src) THEN src[m.offset + 1] ELSE None

next_char(src, m) ==
    IF m.offset + 1 < Len(src) THEN src[m.offset + 2] ELSE None

\* Reader::skip: consume the current character; a line terminator starts a
\* new line (\r\n as one unit, counted at the \n); a no-op at end of input.
reader_skip(src, m) ==
    LET ch == curr_char(src, m) IN
    IF ch = None THEN m
    ELSE IF is_es_newline(ch) /\ ~(ch = Code.CR /\ next_char(src, m) = Code.LF)
    THEN [m EXCEPT !.offset = @ + 1, !.line = @ + 1, !.column = 0]
    ELSE [m EXCEPT !.offset = @ + 1, !.column = @ + 1]

\* A panic: the first one sticks, the call that hit it returns nothing.
Fault(m, msg) == IF m.fault = "" THEN [m EXCEPT !.fault = msg] ELSE m

\* debug_assert!(cond), compiled in only with debug assertions.
debug_assert(m, cond, msg) == IF debug /\ ~cond THEN Fault(m, msg) ELSE m

-----------------------------------------------------------------------------
(* Results *)

Ok(v, m) == [ok |-> TRUE, val |-> v, m |-> m]
Err(e, m) == [ok |-> FALSE, err |-> e, m |-> m]

\* `let value = ...;` followed by the code that uses it.
Let(value, body(_)) == body(value)

-----------------------------------------------------------------------------
(* Generic lexing utilities *)

\* Lexer::posn
posn(m) == curr_posn(m)

\* Lexer::peek
peek(src, m) == curr_char(src, m)

\* Lexer::skip / skip2
skip(src, m) == reader_skip(src, m)
skip2(src, m) == skip(src, skip(src, m))

\* Lexer::read: curr_char().unwrap(), then skip.
read(src, m) ==
    IF curr_char(src, m) = None
    THEN [ch |-> None, m |-> Fault(m, "unwrap on None")]
    ELSE [ch |-> curr_char(src, m), m |-> skip(src, m)]

\* Lexer::reread
reread(src, m, ch) ==
    skip(src, debug_assert(m, peek(src, m) = ch, "reread"))

\* Lexer::matches
matches(src, m, ch) ==
    IF peek(src, m) = ch THEN [hit |-> TRUE, m |-> skip(src, m)]
    ELSE [hit |-> FALSE, m |-> m]

\* The closures handed to the loops below are values that name what they
\* compute: a predicate on characters is called by test, a reading step
\* by step.
Is(c) == [test |-> "is", ch |-> c]

Not(pred) == [test |-> "not", of |-> pred]

Named(name) == [test |-> name]

RECURSIVE test(_, _)
test(pred, ch) ==
    CASE pred.test = "is" -> ch = pred.ch
      [] pred.test = "not" -> ~test(pred.of, ch)
      [] pred.test = "is_digit" -> is_digit(ch, pred.radix)
      [] pred.test = "is_es_newline" -> is_es_newline(ch)
      [] pred.test = "is_es_whitespace" -> is_es_whitespace(ch)
      [] pred.test = "is_es_hex_digit" -> is_es_hex_digit(ch)
      [] pred.test = "is_es_oct_digit" -> is_es_oct_digit(ch)
      [] pred.test = "is_es_bin_digit" -> is_es_bin_digit(ch)
      [] pred.test = "word_end" ->
             ch # Code.BSL /\ ~is_es_identifier_continue(ch)
      [] pred.test = "string_end" ->
             ch = pred.quote \/ ch = Code.BSL \/ is_es_newline(ch)

RECURSIVE step(_, _, _)

\* Lexer::skip_until
skip_until(src, m0, pred) ==
    LET RECURSIVE loop(_)
        loop(m) ==
            LET ch == peek(src, m) IN
            IF ch = None \/ test(pred, ch) THEN m ELSE loop(skip(src, m))
    IN loop(m0)

\* Lexer::skip_while
skip_while(src, m, pred) == skip_until(src, m, Not(pred))

\* Lexer::read_into_until: [s, m]
read_into_until(src, m0, s0, pred) ==
    LET RECURSIVE loop(_, _)
        loop(m, s) ==
            LET ch == peek(src, m) IN
            IF ch = None \/ test(pred, ch) THEN [s |-> s, m |-> m]
            ELSE loop(reread(src, m, ch), Append(s, ch))
    IN loop(m0, s0)

\* Lexer::read_into2_until: [s1, s2, m]
read_into2_until(src, m0, a0, b0, pred) ==
    LET RECURSIVE loop(_, _, _)
        loop(m, s1, s2) ==
            LET ch == peek(src, m) IN
            IF ch = None \/ test(pred, ch) THEN [s1 |-> s1, s2 |-> s2, m |-> m]
            ELSE loop(reread(src, m, ch), Append(s1, ch), Append(s2, ch))
    IN loop(m0, a0, b0)

\* Lexer::read_until_with: `rd` takes and returns [s, m] in a Result; the
\* loop ends at end of input, at a character satisfying pred, or at the
\* first Err.  A call of `rd` that consumes nothing would never return.
read_until_with(src, st0, pred, rd) ==
    LET RECURSIVE loop(_)
        loop(st) ==
            LET ch == peek(src, st.m) IN
            IF ch = None \/ test(pred, ch) THEN Ok(st, st.m)
            ELSE Let(step(rd, src, st), LAMBDA r :
                 IF ~r.ok THEN r
                 ELSE IF r.val.m.offset = st.m.offset
                 THEN Err([type |-> "Diverges"], Fault(st.m, "loop without progress"))
                 ELSE loop(r.val))
    IN loop(st0)

-----------------------------------------------------------------------------
(* Tokens *)

\* Token::new: a token starts with its newline flag clear.
Token(start, end, value) ==
    [location |-> [start |-> start, end |-> end], newline |-> FALSE,
     value |-> value]

\* SpanTracker::end
\* A span tracker that forgets to take the position at the end of the token.
span_end_at_start(start, m, value) == Token(start, start, value)

span_end(start, m, value) == Token(start, posn(m), value)

\* A TokenData variant without payload (EOF and the punctuators).
Punc(name) == [type |-> name]

\* NumberSource::into_token_data
Number(source) == [type |-> "Number", source |-> source]

DecimalInt(digits, exp) ==
    Number([kind |-> "DecimalInt", digits |-> digits, exp |-> exp])
Float(int, frac, exp) ==
    Number([kind |-> "Float", int |-> int, frac |-> frac, exp |-> exp])
RadixInt(radix, flag, digits) ==
    Number([kind |-> "RadixInt", radix |-> radix, flag |-> flag,
            digits |-> digits])

\* RegExpLiteral.flags: the characters of the flags word, collected.
collect_flags(s) == {s[i] : i \in 1..Len(s)}

\* The reserved words (word.rs), by the names of the Reserved variants.
ReservedWords ==
    {<<"n","u","l","l">>, <<"t","r","u","e">>, <<"f","a","l","s","e">>,
     <<"b","r","e","a","k">>, <<"c","a","s","e">>, <<"c","a","t","c","h">>,
     <<"c","l","a","s","s">>, <<"c","o","n","s","t">>,
     <<"c","o","n","t","i","n","u","e">>, <<"d","e","b","u","g","g","e","r">>,
     <<"d","e","f","a","u","l","t">>, <<"d","e","l","e","t","e">>,
     <<"d","o">>, <<"e","l","s","e">>, <<"e","x","p","o","r","t">>,
     <<"e","x","t","e","n","d","s">>, <<"f","i","n","a","l","l","y">>,
     <<"f","o","r">>, <<"f","u","n","c","t","i","o","n">>, <<"i","f">>,
     <<"i","m","p","o","r","t">>, <<"i","n">>,
     <<"i","n","s","t","a","n","c","e","o","f">>, <<"n","e","w">>,
     <<"r","e","t","u","r","n">>, <<"s","u","p","e","r">>,
     <<"s","w","i","t","c","h">>, <<"t","h","i","s">>,
     <<"t","h","r","o","w">>, <<"t","r","y">>, <<"t","y","p","e","o","f">>,
     <<"v","a","r">>, <<"v","o","i","d">>, <<"w","h","i","l","e">>,
     <<"w","i","t","h">>, <<"e","n","u","m">>}

ReservedCodes == {S(w) : w \in ReservedWords}

\* WordMap::tokenize: exact match of the decoded name.
tokenize(s) ==
    IF s \in ReservedCodes THEN [type |-> "Reserved", word |-> s]
    ELSE [type |-> "Identifier", name |-> s]

-----------------------------------------------------------------------------
(* Lexical grammar: newlines, whitespace, comments *)

\* Lexer::skip_newlines
skip_newlines(src, m0) ==
    LET RECURSIVE loop(_)
        loop(m) ==
            LET c1 == curr_char(src, m)
                c2 == next_char(src, m) IN
            IF c1 = Code.CR /\ c2 = Code.LF THEN loop(skip2(src, m))
            ELSE IF c1 # None /\ is_es_newline(c1) THEN loop(skip(src, m))
            ELSE m
    IN loop(debug_assert(m0, peek(src, m0) # None /\ is_es_newline(peek(src, m0)),
                         "skip_newlines"))

\* Lexer::read_newline_into: [s, m]
\* A read_newline_into that records \r\n as a single \n.
read_newline_into_normalised(src, m0, s) ==
    IF curr_char(src, m0) = Code.CR /\ next_char(src, m0) = Code.LF
    THEN [s |-> Append(s, Code.LF), m |-> skip2(src, m0)]
    ELSE Let(read(src, m0), LAMBDA r :
         [s |-> IF r.ch = None THEN s ELSE Append(s, r.ch), m |-> r.m])

read_newline_into(src, m0, s) ==
    Let(debug_assert(m0, peek(src, m0) # None /\ is_es_newline(peek(src, m0)),
                     "read_newline_into"), LAMBDA m :
    IF curr_char(src, m) = Code.CR /\ next_char(src, m) = Code.LF
    THEN [s |-> s \o <<Code.CR, Code.LF>>, m |-> skip2(src, m)]
    ELSE Let(read(src, m), LAMBDA r :
         [s |-> IF r.ch = None THEN s ELSE Append(s, r.ch), m |-> r.m]))

\* Lexer::skip_whitespace
skip_whitespace(src, m) == skip_while(src, m, Named("is_es_whitespace"))

\* Lexer::skip_line_comment
skip_line_comment(src, m) ==
    skip_until(src, skip2(src, m), Named("is_es_newline"))

\* Lexer::skip_block_comment: Ok(found_newline) or Err(UnterminatedComment)
\* A skip_block_comment that does not look for line terminators.
skip_block_comment_blind(src, m0) ==
    LET RECURSIVE loop(_)
        loop(m) ==
            LET c1 == curr_char(src, m)
                c2 == next_char(src, m) IN
            IF c1 = None \/ c2 = None
            THEN Err([type |-> "UnterminatedComment"], m)
            ELSE IF c1 = Code["*"] /\ c2 = Code["/"]
            THEN Ok(FALSE, skip2(src, m))
            ELSE loop(skip(src, m))
    IN loop(skip2(src, m0))

skip_block_comment(src, m0) ==
    LET RECURSIVE loop(_, _)
        loop(m, found_newline) ==
            LET c1 == curr_char(src, m)
                c2 == next_char(src, m) IN
            IF c1 = None \/ c2 = None
            THEN Err([type |-> "UnterminatedComment"], m)
            ELSE IF c1 = Code["*"] /\ c2 = Code["/"]
            THEN Ok(found_newline, skip2(src, m))
            ELSE loop(skip(src, m), found_newline \/ is_es_newline(c1))
    IN loop(skip2(src, m0), FALSE)

-----------------------------------------------------------------------------
(* Lexical grammar: digits and escapes shared by the sub-scanners *)

\* Lexer::read_digit_into: Ok([digit, s, m]), Err(InvalidDigit(ch)) at a
\* character outside the radix, Err(missing_digits) at end of input.
read_digit_into(src, m, s, radix, pred, missing_digits) ==
    LET ch == peek(src, m) IN
    IF ch = None THEN Err(missing_digits, m)
    ELSE IF test(pred, ch)
    THEN Let(debug_assert(reread(src, m, ch), is_digit(ch, radix),
                          "read_digit_into"), LAMBDA m1 :
         Ok([digit |-> to_digit(ch, radix), s |-> Append(s, ch), m |-> m1], m1))
    ELSE Err([type |-> "InvalidDigit", char |-> ch], m)

\* Lexer::read_hex_digit_into
read_hex_digit_into(src, m, s) ==
    read_digit_into(src, m, s, 16, Named("is_es_hex_digit"),
                    [type |-> "MissingHexDigits"])

\* A u32 as its two 16-bit halves, [hi, lo]: value hi * 2^16 + lo.
Half == 65536

u32(n) == [hi |-> n \div Half, lo |-> n % Half]

\* u32 * k and u32 + u32 for a small k: [val, overflow], val the wrapped
\* result and overflow whether the exact result left the 32 bits.
u32_mul(x, k) ==
    LET lo == x.lo * k
        hi == x.hi * k + lo \div Half IN
    [val |-> [hi |-> hi % Half, lo |-> lo % Half], overflow |-> hi >= Half]

u32_add(x, y) ==
    LET lo == x.lo + y.lo
        hi == x.hi + y.hi + lo \div Half IN
    [val |-> [hi |-> hi % Half, lo |-> lo % Half], overflow |-> hi >= Half]

\* add_digits: [sum, overflow]; `place *= radix` runs after every digit,
\* the last one included.
add_digits(digits, radix) ==
    LET RECURSIVE loop(_, _, _, _)
        loop(i, place, sum, overflow) ==
            IF i = 0 THEN [sum |-> sum, overflow |-> overflow]
            ELSE Let(u32_mul(place, digits[i]), LAMBDA prod :
                 Let(u32_add(sum, prod.val), LAMBDA sum1 :
                 Let(u32_mul(place, radix), LAMBDA place1 :
                 loop(i - 1, place1.val, sum1.val,
                      overflow \/ prod.overflow \/ sum1.overflow
                          \/ place1.overflow))))
    IN loop(Len(digits), u32(1), u32(0), FALSE)

\* The step of the loop of read_unicode_escape_seq: one more hex digit.
read_hex_digit_step(src, st) ==
    Let(read_hex_digit_into(src, st.m, st.s), LAMBDA d :
    IF ~d.ok THEN d
    ELSE Ok([s |-> d.val.s, m |-> d.val.m,
             digits |-> Append(st.digits, d.val.digit)],
            d.val.m))

\* Lexer::read_unicode_escape_seq: Ok([code, s, m]) or Err.
read_unicode_escape_seq(src, m0, s0) ==
    Let(matches(src, m0, Code["{"]), LAMBDA br :
    IF br.hit
    THEN Let(read_hex_digit_into(src, br.m, Append(s0, Code["{"])), LAMBDA d1 :
         IF ~d1.ok THEN d1
         ELSE
         Let(read_until_with(src,
                 [s |-> d1.val.s, m |-> d1.val.m, digits |-> <<d1.val.digit>>],
                 Is(Code["}"]), "read_hex_digit_step"), LAMBDA more :
         IF ~more.ok THEN more
         ELSE
         Let(reread(src, more.val.m, Code["}"]), LAMBDA m1 :
         Let(add_digits(more.val.digits, 16), LAMBDA sum :
         Let(IF debug /\ sum.overflow THEN Fault(m1, "arithmetic overflow")
             ELSE m1, LAMBDA m2 :
         Ok([code |-> sum.sum, s |-> Append(more.val.s, Code["}"]), m |-> m2],
            m2))))))
    ELSE
         LET RECURSIVE loop(_, _, _, _, _)
             loop(i, place, code_point, s, m) ==
                 IF i = 4 THEN Ok([code |-> u32(code_point), s |-> s, m |-> m], m)
                 ELSE Let(read_hex_digit_into(src, m, s), LAMBDA d :
                      IF ~d.ok THEN d
                      ELSE loop(i + 1, place \div 16,
                                code_point + d.val.digit * place,
                                d.val.s, d.val.m))
         IN loop(0, 4096, 0, s0, br.m))

\* char::from_u32(code).unwrap_or('?')
from_u32_or_question(code) ==
    IF from_u32_valid(code) THEN from_u32(code) ELSE Code["?"]

-----------------------------------------------------------------------------
(* Lexical grammar: regular expressions *)

\* Lexer::read_regexp_backslash: Ok([s, m]) or Err(UnterminatedRegExp)
\* A read_regexp_backslash that takes the backslash and leaves what follows
\* to the loop that called it.
read_regexp_backslash_alone(src, st) ==
    Let(reread(src, st.m, Code.BSL), LAMBDA m1 :
    Ok([s |-> Append(st.s, Code.BSL), m |-> m1], m1))

read_regexp_backslash(src, st) ==
    Let(reread(src, st.m, Code.BSL), LAMBDA m1 :
    LET s1 == Append(st.s, Code.BSL)
        ch == peek(src, m1) IN
    IF ch = None THEN Err([type |-> "UnterminatedRegExp", ch |-> <<>>], m1)
    ELSE IF is_es_newline(ch)
    THEN Err([type |-> "UnterminatedRegExp", ch |-> Some(ch)], m1)
    ELSE Let(reread(src, m1, ch), LAMBDA m2 :
         Ok([s |-> Append(s1, ch), m |-> m2], m2)))

\* Lexer::read_regexp_class_char
read_regexp_class_char(src, st) ==
    LET ch == peek(src, st.m) IN
    IF ch = Code.BSL THEN read_regexp_backslash(src, st)
    ELSE IF ch = None THEN Err([type |-> "UnterminatedRegExp", ch |-> <<>>], st.m)
    ELSE Let(reread(src, st.m, ch), LAMBDA m1 :
         Ok([s |-> Append(st.s, ch), m |-> m1], m1))

\* Lexer::read_regexp_class
read_regexp_class(src, st) ==
    Let(reread(src, st.m, Code["["]), LAMBDA m1 :
    Let(read_until_with(src, [s |-> Append(st.s, Code["["]), m |-> m1],
                        Is(Code["]"]), "read_regexp_class_char"), LAMBDA body :
    IF ~body.ok THEN body
    ELSE Let(reread(src, body.val.m, Code["]"]), LAMBDA m2 :
         Ok([s |-> Append(body.val.s, Code["]"]), m |-> m2], m2))))

\* Lexer::read_regexp_char
read_regexp_char(src, st) ==
    LET ch == peek(src, st.m) IN
    IF ch = Code.BSL THEN read_regexp_backslash(src, st)
    ELSE IF ch = Code["["] THEN read_regexp_class(src, st)
    ELSE IF ch = None THEN Err([type |-> "UnterminatedRegExp", ch |-> <<>>], st.m)
    ELSE IF is_es_newline(ch)
    THEN Err([type |-> "UnterminatedRegExp", ch |-> Some(ch)], st.m)
    ELSE Let(reread(src, st.m, ch), LAMBDA m1 :
         Ok([s |-> Append(st.s, ch), m |-> m1], m1))

\* Lexer::read_word_escape: Ok([s, m]) or Err
read_word_escape(src, st) ==
    IF peek(src, st.m) # Code["u"]
    THEN Err([type |-> "IncompleteWordEscape", ch |-> Opt(peek(src, st.m))], st.m)
    ELSE Let(read_unicode_escape_seq(src, reread(src, st.m, Code["u"]), <<>>),
             LAMBDA esc :
         IF ~esc.ok THEN esc
         ELSE IF from_u32_valid(esc.val.code)
         THEN Ok([s |-> Append(st.s, from_u32(esc.val.code)), m |-> esc.val.m],
                 esc.val.m)
         ELSE Err([type |-> "IllegalUnicode", code |-> esc.val.code], esc.val.m))

\* The step of the loop of read_word_parts: a character or an escape.
read_word_part(src, st) ==
    Let(read(src, st.m), LAMBDA r :
    IF r.ch = Code.BSL THEN read_word_escape(src, [s |-> st.s, m |-> r.m])
    ELSE Ok([s |-> Append(st.s, r.ch), m |-> r.m], r.m))

step(rd, src, st) ==
    CASE rd = "read_hex_digit_step" -> read_hex_digit_step(src, st)
      [] rd = "read_regexp_class_char" -> read_regexp_class_char(src, st)
      [] rd = "read_regexp_char" -> read_regexp_char(src, st)
      [] rd = "read_word_part" -> read_word_part(src, st)

\* Lexer::read_word_parts: Ok([s, m]) or Err
read_word_parts(src, m0) ==
    read_until_with(src, [s |-> <<>>, m |-> m0], Named("word_end"),
                    "read_word_part")

\* Lexer::read_word
\* A read_word that classifies the text of the word as written.
read_word_raw(src, m0) ==
    Let(read_word_parts(src, m0), LAMBDA w :
    IF ~w.ok THEN w
    ELSE Ok(span_end(posn(m0), w.val.m,
                     tokenize(SubSeq(src, m0.offset + 1, w.val.m.offset))),
            w.val.m))

read_word(src, m0) ==
    Let(debug_assert(m0,
            peek(src, m0) # None /\ (peek(src, m0) = Code.BSL
                                     \/ is_es_identifier_start(peek(src, m0))),
            "read_word"), LAMBDA m1 :
    Let(read_word_parts(src, m1), LAMBDA w :
    IF ~w.ok THEN w
    ELSE Let(debug_assert(w.val.m, Len(w.val.s) > 0, "read_word: empty"),
             LAMBDA m2 :
         Ok(span_end(posn(m0), m2, tokenize(w.val.s)), m2))))

\* Lexer::read_regexp
read_regexp(src, m0) ==
    Let(reread(src, m0, Code["/"]), LAMBDA m1 :
    Let(read_until_with(src, [s |-> <<>>, m |-> m1],
                        Is(Code["/"]), "read_regexp_char"), LAMBDA body :
    IF ~body.ok THEN body
    ELSE Let(reread(src, body.val.m, Code["/"]), LAMBDA m2 :
         Let(read_word_parts(src, m2), LAMBDA flags :
         IF ~flags.ok THEN flags
         ELSE Ok(span_end(posn(m0), flags.val.m,
                          [type |-> "RegExp", pattern |-> body.val.s,
                           flags |-> collect_flags(flags.val.s)]),
                 flags.val.m)))))

-----------------------------------------------------------------------------
(* Lexical grammar: numbers *)

not_decimal_digit == Not([test |-> "is_digit", radix |-> 10])

\* Lexer::read_decimal_digits_into / read_decimal_digits / read_decimal_int
read_decimal_digits_into(src, m, s) == read_into_until(src, m, s, not_decimal_digit)
read_decimal_digits(src, m) == read_decimal_digits_into(src, m, <<>>)
read_decimal_int(src, m) == read_into_until(src, m, <<>>, not_decimal_digit)

\* Lexer::read_exp_part: Ok([exp, m]) with exp an Option<Exp>, or
\* Err(MissingExponent)
\* A read_exp_part that lets an exponent go without digits.
read_exp_part_lenient(src, m0) ==
    LET c0 == peek(src, m0) IN
    IF c0 # Code["e"] /\ c0 # Code["E"] THEN Ok([exp |-> <<>>, m |-> m0], m0)
    ELSE
    Let(skip(src, m0), LAMBDA m1 :
    LET e == IF c0 = Code["e"] THEN "LowerCase" ELSE "UpperCase"
        c1 == peek(src, m1)
        sign == IF c1 = Code["+"] THEN Some("Plus")
                ELSE IF c1 = Code["-"] THEN Some("Minus")
                ELSE <<>>
    IN
    Let(IF sign # <<>> THEN skip(src, m1) ELSE m1, LAMBDA m2 :
    Let(read_decimal_digits_into(src, m2, <<>>), LAMBDA v :
    Ok([exp |-> Some([e |-> e, sign |-> sign, value |-> v.s]), m |-> v.m],
       v.m))))

\* A read_exp_part that takes the sign for the end of the number.
read_exp_part_unsigned(src, m0) ==
    LET c0 == peek(src, m0) IN
    IF c0 # Code["e"] /\ c0 # Code["E"] THEN Ok([exp |-> <<>>, m |-> m0], m0)
    ELSE
    Let(skip(src, m0), LAMBDA m1 :
    Let(read_decimal_digits_into(src, m1, <<>>), LAMBDA v :
    Ok([exp |-> Some([e |-> "LowerCase", sign |-> <<>>, value |-> v.s]),
        m |-> v.m], v.m)))

read_exp_part(src, m0) ==
    LET c0 == peek(src, m0) IN
    IF c0 # Code["e"] /\ c0 # Code["E"] THEN Ok([exp |-> <<>>, m |-> m0], m0)
    ELSE
    Let(skip(src, m0), LAMBDA m1 :
    LET e == IF c0 = Code["e"] THEN "LowerCase" ELSE "UpperCase"
        c1 == peek(src, m1)
        sign == IF c1 = Code["+"] THEN Some("Plus")
                ELSE IF c1 = Code["-"] THEN Some("Minus")
                ELSE <<>>
    IN
    Let(IF sign # <<>> THEN skip(src, m1) ELSE m1, LAMBDA m2 :
    LET c2 == peek(src, m2) IN
    IF c2 = None THEN Err([type |-> "MissingExponent", ch |-> <<>>], m2)
    ELSE IF ~is_digit(c2, 10)
    THEN Err([type |-> "MissingExponent", ch |-> Some(c2)], m2)
    ELSE Let(read_decimal_digits_into(src, m2, <<>>), LAMBDA v :
         Ok([exp |-> Some([e |-> e, sign |-> sign, value |-> v.s]), m |-> v.m],
            v.m))))

\* Lexer::read_radix_int: cons names the radix of the token data.
\* A read_radix_int that takes the case marker from the first digit.
read_radix_int_digit_case(src, m0, radix, pred, cons, missing_digits) ==
    Let(read(src, skip(src, m0)), LAMBDA r :
    Let(read_digit_into(src, r.m, <<>>, radix, pred, missing_digits), LAMBDA d :
    IF ~d.ok THEN d
    ELSE Let(read_into_until(src, d.val.m, d.val.s, Not(pred)), LAMBDA rest :
         Ok(span_end(posn(m0), rest.m,
                     RadixInt(cons,
                              Some(IF is_lowercase(rest.s[1]) THEN "LowerCase"
                                   ELSE "UpperCase"),
                              rest.s)),
            rest.m))))

\* A read_radix_int that stops after the first digit.
read_radix_int_one_digit(src, m0, radix, pred, cons, missing_digits) ==
    Let(read(src, skip(src, m0)), LAMBDA r :
    LET flag == IF is_lowercase(r.ch) THEN "LowerCase" ELSE "UpperCase" IN
    Let(read_digit_into(src, r.m, <<>>, radix, pred, missing_digits), LAMBDA d :
    IF ~d.ok THEN d
    ELSE Ok(span_end(posn(m0), d.val.m, RadixInt(cons, Some(flag), d.val.s)),
            d.val.m)))

read_radix_int(src, m0, radix, pred, cons, missing_digits) ==
    Let(debug_assert(m0, curr_char(src, m0) = Code["0"], "read_radix_int: 0"),
        LAMBDA a1 :
    Let(debug_assert(a1, next_char(src, a1) # None
                             /\ is_alphabetic(next_char(src, a1)),
                     "read_radix_int: prefix"), LAMBDA a2 :
    Let(read(src, skip(src, a2)), LAMBDA r :
    LET flag == IF is_lowercase(r.ch) THEN "LowerCase" ELSE "UpperCase" IN
    Let(read_digit_into(src, r.m, <<>>, radix, pred, missing_digits), LAMBDA d :
    IF ~d.ok THEN d
    ELSE Let(read_into_until(src, d.val.m, d.val.s, Not(pred)), LAMBDA rest :
         Ok(span_end(posn(m0), rest.m, RadixInt(cons, Some(flag), rest.s)),
            rest.m))))))

\* Lexer::read_hex_int / read_oct_int / read_bin_int
read_hex_int(src, m) ==
    read_radix_int(src, m, 16, Named("is_es_hex_digit"), "Hex",
                   [type |-> "MissingHexDigits"])

read_oct_int(src, m) ==
    read_radix_int(src, m, 8, Named("is_es_oct_digit"), "Oct",
                   [type |-> "MissingOctalDigits"])

read_bin_int(src, m) ==
    read_radix_int(src, m, 2, Named("is_es_bin_digit"), "Bin",
                   [type |-> "MissingBinaryDigits"])

\* Lexer::read_deprecated_oct_int
\* A read_deprecated_oct_int that takes every digit run for an octal one.
read_deprecated_oct_int_always_octal(src, m0) ==
    Let(read_into_until(src, skip(src, m0), <<>>, not_decimal_digit), LAMBDA r :
    Ok(span_end(posn(m0), r.m, RadixInt("Oct", <<>>, r.s)), r.m))

read_deprecated_oct_int(src, m0) ==
    Let(read_into_until(src, skip(src, m0), <<>>, not_decimal_digit), LAMBDA r :
    Ok(span_end(posn(m0), r.m,
                IF \A i \in 1..Len(r.s) : is_es_oct_digit(r.s[i])
                THEN RadixInt("Oct", <<>>, r.s)
                ELSE DecimalInt(<<Code["0"]>> \o r.s, <<>>)),
       r.m))

\* Lexer::read_number, up to the token (the match on peek2)
read_number_token(src, m0) ==
    LET c1 == curr_char(src, m0)
        c2 == next_char(src, m0) IN
    IF c1 = Code["0"] /\ c2 \in {Code["x"], Code["X"]} THEN read_hex_int(src, m0)
    ELSE IF c1 = Code["0"] /\ c2 \in {Code["o"], Code["O"]} THEN read_oct_int(src, m0)
    ELSE IF c1 = Code["0"] /\ c2 \in {Code["b"], Code["B"]} THEN read_bin_int(src, m0)
    ELSE IF c1 = Code["0"] /\ c2 # None /\ is_digit(c2, 10)
    THEN read_deprecated_oct_int(src, m0)
    ELSE IF c1 = Code["."]
    THEN Let(read_decimal_digits(src, skip(src, m0)), LAMBDA frac :
         Let(read_exp_part(src, frac.m), LAMBDA exp :
         IF ~exp.ok THEN exp
         ELSE Ok(span_end(posn(m0), exp.val.m,
                          Float(<<>>, Some(frac.s), exp.val.exp)),
                 exp.val.m)))
    ELSE IF c1 # None
    THEN Let(read_decimal_int(src,
                 debug_assert(m0, is_digit(c1, 10), "read_number: digit")),
             LAMBDA pos :
         Let(matches(src, pos.m, Code["."]), LAMBDA dot :
         Let(IF dot.hit /\ peek(src, dot.m) # None
                /\ is_digit(peek(src, dot.m), 10)
             THEN read_decimal_digits(src, dot.m)
             ELSE [s |-> <<>>, m |-> dot.m], LAMBDA frac :
         Let(read_exp_part(src, frac.m), LAMBDA exp :
         IF ~exp.ok THEN exp
         ELSE Ok(span_end(posn(m0), exp.val.m,
                          IF dot.hit
                          THEN Float(Some(pos.s), Some(frac.s), exp.val.exp)
                          ELSE DecimalInt(pos.s, exp.val.exp)),
                 exp.val.m)))))
    ELSE Err([type |-> "Panic"], Fault(m0, "read_number() called at EOF"))

\* Lexer::read_number: the token, then the guard on what follows it.
\* A read_number that returns the token whatever follows it.
read_number_unguarded(src, m0) == read_number_token(src, m0)

read_number(src, m0) ==
    Let(read_number_token(src, m0), LAMBDA result :
    IF ~result.ok THEN result
    ELSE LET ch == peek(src, result.m) IN
         IF ch # None /\ is_es_identifier_start(ch)
         THEN Err([type |-> "IdAfterNumber", char |-> ch], result.m)
         ELSE IF ch # None /\ is_digit(ch, 10)
         THEN Err([type |-> "DigitAfterNumber", char |-> ch], result.m)
         ELSE result)

-----------------------------------------------------------------------------
(* Lexical grammar: strings *)

\* The legacy octal escape of Lexer::read_string_escape: [code, source, m]
\* An octal escape that takes three octal digits whatever their value.
read_octal_escape_unbounded(src, m0, source0) ==
    LET RECURSIVE loop(_, _, _, _)
        loop(i, code, source, m) ==
            LET ch == peek(src, m) IN
            IF i = 3 \/ ch = None \/ ~is_digit(ch, 8)
            THEN [code |-> code, source |-> source, m |-> m]
            ELSE loop(i + 1, code * 8 + to_digit(ch, 8), Append(source, ch),
                      reread(src, m, ch))
    IN loop(0, 0, source0, m0)

read_octal_escape(src, m0, source0) ==
    LET RECURSIVE loop(_, _, _, _)
        loop(i, code, source, m) ==
            LET ch == peek(src, m) IN
            IF i = 3 \/ ch = None \/ ~is_digit(ch, 8)
            THEN [code |-> code, source |-> source, m |-> m]
            ELSE LET new_code == code * 8 + to_digit(ch, 8) IN
                 IF new_code > 255
                 THEN [code |-> code, source |-> source, m |-> m]
                 ELSE loop(i + 1, new_code, Append(source, ch), reread(src, m, ch))
    IN loop(0, 0, source0, m0)

\* Lexer::read_string_escape: Ok([source, value, m]) or Err
read_string_escape(src, m0, source0, value) ==
    Let(reread(src, m0, Code.BSL), LAMBDA m1 :
    LET source == Append(source0, Code.BSL)
        ch == peek(src, m1) IN
    IF ch = None THEN Ok([source |-> source, value |-> value, m |-> m1], m1)
    ELSE IF is_digit(ch, 8)
    THEN Let(read_octal_escape(src, m1, source), LAMBDA o :
         Ok([source |-> o.source,
             value |-> Append(value, from_u32_or_question(u32(o.code))),
             m |-> o.m], o.m))
    ELSE IF is_es_single_escape_char(ch)
    THEN Let(reread(src, m1, ch), LAMBDA m2 :
         Ok([source |-> Append(source, ch), value |-> Append(value, unescape(ch)),
             m |-> m2], m2))
    ELSE IF ch = Code["x"]
    THEN Let(read_hex_digit_into(src, reread(src, m1, Code["x"]),
                                 Append(source, Code["x"])), LAMBDA h1 :
         IF ~h1.ok THEN h1
         ELSE Let(read_hex_digit_into(src, h1.val.m, h1.val.s), LAMBDA h2 :
              IF ~h2.ok THEN h2
              ELSE Ok([source |-> h2.val.s,
                       value |-> Append(value,
                           from_u32_or_question(u32(h1.val.digit * 16 + h2.val.digit))),
                       m |-> h2.val.m], h2.val.m)))
    ELSE IF ch = Code["u"]
    THEN Let(read_unicode_escape_seq(src, reread(src, m1, Code["u"]),
                                     Append(source, Code["u"])), LAMBDA esc :
         IF ~esc.ok THEN esc
         ELSE Ok([source |-> esc.val.s,
                  value |-> Append(value, from_u32_or_question(esc.val.code)),
                  m |-> esc.val.m], esc.val.m))
    ELSE IF is_es_newline(ch)
    THEN Let(read_newline_into(src, m1, source), LAMBDA n :
         Ok([source |-> n.s, value |-> value, m |-> n.m], n.m))
    ELSE Let(reread(src, m1, ch), LAMBDA m2 :
         Ok([source |-> Append(source, ch), value |-> Append(value, ch),
             m |-> m2], m2)))

\* Lexer::read_string
read_string(src, m0) ==
    Let(read(src, debug_assert(m0, peek(src, m0) # None, "read_string")),
        LAMBDA q :
    LET quote == q.ch
        RECURSIVE loop(_, _, _)
        loop(m, source, value) ==
            Let(read_into2_until(src, m, source, value,
                    [test |-> "string_end", quote |-> quote]), LAMBDA r :
            LET ch == peek(src, r.m) IN
            IF ch = Code.BSL
            THEN Let(read_string_escape(src, r.m, r.s1, r.s2), LAMBDA e :
                 IF ~e.ok THEN e
                 ELSE loop(e.val.m, e.val.source, e.val.value))
            ELSE IF ch = None
            THEN Err([type |-> "UnterminatedString", ch |-> <<>>], r.m)
            ELSE IF is_es_newline(ch)
            THEN Err([type |-> "UnterminatedString", ch |-> Some(ch)], r.m)
            ELSE Let(skip(src, r.m), LAMBDA m1 :
                 Ok(span_end(posn(m0), m1,
                             [type |-> "String",
                              source |-> Some(Append(r.s1, quote)),
                              value |-> r.s2]),
                    m1)))
    IN loop(q.m, <<quote>>, <<>>))

-----------------------------------------------------------------------------
(* The scanner *)

\* Lexer::read_punc / read_punc2 / read_punc2_3
read_punc(src, m, value) ==
    Let(skip(src, m), LAMBDA m1 : Ok(span_end(posn(m), m1, value), m1))

read_punc2(src, m, value) ==
    Let(skip2(src, m), LAMBDA m1 : Ok(span_end(posn(m), m1, value), m1))

read_punc2_3(src, m, ch, value2, value3) ==
    Let(matches(src, skip2(src, m), ch), LAMBDA r :
    Ok(span_end(posn(m), r.m, IF r.hit THEN value3 ELSE value2), r.m))

\* The `>>` arm of Lexer::read_next_token
read_rshift(src, m) ==
    Let(skip2(src, m), LAMBDA m1 :
    LET c1 == curr_char(src, m1)
        c2 == next_char(src, m1)
        done(m2, name) == Ok(span_end(posn(m), m2, Punc(name)), m2) IN
    IF c1 = Code[">"] /\ c2 = Code["="] THEN done(skip2(src, m1), "URShiftAssign")
    ELSE IF c1 = Code[">"] THEN done(skip(src, m1), "URShift")
    ELSE IF c1 = Code["="] THEN done(skip(src, m1), "RShiftAssign")
    ELSE done(m1, "RShift"))

\* The first loop of Lexer::read_next_token: skip whitespace and comments.
\* Ok([pair, found_newline, m]) or Err(UnterminatedComment).
skip_trivia(src, m0) ==
    LET RECURSIVE loop(_, _)
        loop(m, found_newline) ==
            LET c1 == curr_char(src, m)
                c2 == next_char(src, m) IN
            IF c1 # None /\ is_es_whitespace(c1)
            THEN loop(skip_whitespace(src, m), found_newline)
            ELSE IF c1 # None /\ is_es_newline(c1)
            THEN loop(skip_newlines(src, m), TRUE)
            ELSE IF c1 = Code["/"] /\ c2 = Code["/"]
            THEN loop(skip_line_comment(src, m), found_newline)
            ELSE IF c1 = Code["/"] /\ c2 = Code["*"]
            THEN Let(skip_block_comment(src, m), LAMBDA c :
                 IF ~c.ok THEN c ELSE loop(c.m, c.val \/ found_newline))
            ELSE Ok([c1 |-> c1, c2 |-> c2, found_newline |-> found_newline, m |-> m], m)
    IN loop(m0, FALSE)

\* self.cx.get(): one more read of the shared context cell.
cx_get(m) == [m EXCEPT !.gets = @ + 1]

\* The arms of the match on `/` of Lexer::read_next_token, in their order:
\* the guard of the first arm reads the context, once.
\* The `/` arms with the test of the context flag inverted.
read_slash_inverted(src, m0, c2, operator) ==
    Let(cx_get(m0), LAMBDA m :
    IF operator THEN read_regexp(src, m)
    ELSE IF c2 = Code["="] THEN read_punc2(src, m, Punc("SlashAssign"))
    ELSE read_punc(src, m, Punc("Slash")))

\* The `/` arms with the `/=` arm ahead of the regular-expression arm.
read_slash_assign_first(src, m0, c2, operator) ==
    Let(cx_get(m0), LAMBDA m :
    IF c2 = Code["="] THEN read_punc2(src, m, Punc("SlashAssign"))
    ELSE IF ~operator THEN read_regexp(src, m)
    ELSE read_punc(src, m, Punc("Slash")))

\* The `/` arms with a guard on each arm, each reading the context.
read_slash_rereading(src, m0, c2, operator) ==
    Let(cx_get(m0), LAMBDA m :
    IF ~operator THEN read_regexp(src, m)
    ELSE Let(cx_get(m), LAMBDA m1 :
         IF c2 = Code["="] THEN read_punc2(src, m1, Punc("SlashAssign"))
         ELSE read_punc(src, m1, Punc("Slash"))))

read_slash(src, m0, c2, operator) ==
    Let(cx_get(m0), LAMBDA m :
    IF ~operator THEN read_regexp(src, m)
    ELSE IF c2 = Code["="] THEN read_punc2(src, m, Punc("SlashAssign"))
    ELSE read_punc(src, m, Punc("Slash")))

\* The second match of Lexer::read_next_token: dispatch on the pair.
dispatch(src, m, c1, c2, operator) ==
    LET one(name) == read_punc(src, m, Punc(name))
        two(name) == read_punc2(src, m, Punc(name)) IN
    CASE c1 = Code["/"] -> read_slash(src, m, c2, operator)
      [] c1 = Code["."] /\ c2 # None /\ is_digit(c2, 10) -> read_number(src, m)
      [] c1 = Code["."] /\ ~(c2 # None /\ is_digit(c2, 10)) -> one("Dot")
      [] c1 = Code["{"] -> one("LBrace")
      [] c1 = Code["}"] -> one("RBrace")
      [] c1 = Code["["] -> one("LBrack")
      [] c1 = Code["]"] -> one("RBrack")
      [] c1 = Code["("] -> one("LParen")
      [] c1 = Code[")"] -> one("RParen")
      [] c1 = Code[";"] -> one("Semi")
      [] c1 = Code[":"] -> one("Colon")
      [] c1 = Code[","] -> one("Comma")
      [] c1 = Code["<"] ->
            IF c2 = Code["<"]
            THEN read_punc2_3(src, m, Code["="], Punc("LShift"), Punc("LShiftAssign"))
            ELSE IF c2 = Code["="] THEN two("LEq")
            ELSE one("LAngle")
      [] c1 = Code[">"] ->
            IF c2 = Code[">"] THEN read_rshift(src, m)
            ELSE IF c2 = Code["="] THEN two("GEq")
            ELSE one("RAngle")
      [] c1 = Code["="] ->
            IF c2 = Code["="]
            THEN read_punc2_3(src, m, Code["="], Punc("Eq"), Punc("StrictEq"))
            ELSE one("Assign")
      [] c1 = Code["+"] ->
            IF c2 = Code["+"] THEN two("Inc")
            ELSE IF c2 = Code["="] THEN two("PlusAssign")
            ELSE one("Plus")
      [] c1 = Code["-"] ->
            IF c2 = Code["-"] THEN two("Dec")
            ELSE IF c2 = Code["="] THEN two("MinusAssign")
            ELSE one("Minus")
      [] c1 = Code["*"] -> IF c2 = Code["="] THEN two("StarAssign") ELSE one("Star")
      [] c1 = Code["%"] -> IF c2 = Code["="] THEN two("ModAssign") ELSE one("Mod")
      [] c1 = Code["^"] -> IF c2 = Code["="] THEN two("BitXorAssign") ELSE one("BitXor")
      [] c1 = Code["&"] ->
            IF c2 = Code["&"] THEN two("LogicalAnd")
            ELSE IF c2 = Code["="] THEN two("BitAndAssign")
            ELSE one("BitAnd")
      [] c1 = Code["|"] ->
            IF c2 = Code["|"] THEN two("LogicalOr")
            ELSE IF c2 = Code["="] THEN two("BitOrAssign")
            ELSE one("BitOr")
      [] c1 = Code["~"] -> one("Tilde")
      [] c1 = Code["!"] ->
            IF c2 = Code["="]
            THEN read_punc2_3(src, m, Code["="], Punc("NEq"), Punc("StrictNEq"))
            ELSE one("Bang")
      [] c1 = Code["?"] -> one("Question")
      [] c1 = Code.DQ \/ c1 = Code.SQ -> read_string(src, m)
      [] c1 = None -> Ok(Token(posn(m), posn(m), Punc("EOF")), m)
      [] OTHER ->
            IF is_digit(c1, 10) THEN read_number(src, m)
            ELSE IF is_es_identifier_start(c1) THEN read_word(src, m)
            ELSE IF c1 = Code.BSL THEN read_word(src, m)
            ELSE Err([type |-> "IllegalChar", char |-> c1], m)

\* Lexer::read_next_token: Ok(token) or Err(error), with the reader after
\* the call in `m`; a call that panicked has m.fault set.
read_next_token(src, m0, operator) ==
    Let(skip_trivia(src, m0), LAMBDA t :
    IF ~t.ok THEN t
    ELSE Let(dispatch(src, t.val.m, t.val.c1, t.val.c2, operator), LAMBDA result :
         IF ~result.ok THEN result
         ELSE Ok([result.val EXCEPT !.newline = t.val.found_newline], result.m)))

-----------------------------------------------------------------------------
(* The lookahead buffer (lookahead.rs) *)

\* Buffer::new
NewBuffer == <<>>

\* Buffer::is_empty
is_empty(buf) == buf = <<>>

\* Buffer::push_token / Buffer::unread_token
push_token(buf, token) == Append(buf, token)

\* Buffer::read_token: take the token out.
take_token(buf) == Tail(buf)

-----------------------------------------------------------------------------
(* Inputs *)

\* The longest input made of alphabet characters only.
MaxLen == 2

Alphabet == {Code["/"], Code["="], Code["a"], Code["1"], Code[" "]}

Strings(n) == UNION {[1..k -> Alphabet] : k \in 0..n}

\* The multi-character punctuators of TokenData, with their texts.
Punctuators ==
    { <<"LShift", <<"<", "<">> >>, <<"LShiftAssign", <<"<", "<", "=">> >>,
      <<"LEq", <<"<", "=">> >>, <<"RShift", <<">", ">">> >>,
      <<"RShiftAssign", <<">", ">", "=">> >>, <<"URShift", <<">", ">", ">">> >>,
      <<"URShiftAssign", <<">", ">", ">", "=">> >>, <<"GEq", <<">", "=">> >>,
      <<"Eq", <<"=", "=">> >>, <<"StrictEq", <<"=", "=", "=">> >>,
      <<"NEq", <<"!", "=">> >>, <<"StrictNEq", <<"!", "=", "=">> >>,
      <<"Inc", <<"+", "+">> >>, <<"PlusAssign", <<"+", "=">> >>,
      <<"Dec", <<"-", "-">> >>, <<"MinusAssign", <<"-", "=">> >>,
      <<"StarAssign", <<"*", "=">> >>, <<"ModAssign", <<"%", "=">> >>,
      <<"BitXorAssign", <<"^", "=">> >>, <<"LogicalAnd", <<"&", "&">> >>,
      <<"BitAndAssign", <<"&", "=">> >>, <<"LogicalOr", <<"|", "|">> >>,
      <<"BitOrAssign", <<"|", "=">> >>, <<"SlashAssign", <<"/", "=">> >>,
      <<"Arrow", <<"=", ">">> >> }

\* Inputs beyond the alphabet: the sources the properties name.
Samples ==
    {S(p[2]) : p \in Punctuators}
    \cup {S(<<"/", "a", "b", "c", "/", "g">>), S(<<"1", "0", "/", "2">>),
          S(<<"/", "=", "/">>), S(<<" ", "/", "=", "a">>),
          S(<<"/", "/", "a">>), S(<<"a", ";">>), S(<<"a", "LF", "a">>),
          S(<<"/", "*", "a", "*", "/", "a">>), S(<<"/", "*", "LF", "*", "/", "1">>),
          S(<<"/", "*", "a">>), S(<<"/", "a", "LF">>), S(<<"a", " ", "/", "/">>),
          S(<<"a", "/", "/", "a", "LF", "1">>),
          S(<<"/", "[", "LF", "]", "/">>), S(<<"/", "[", "a">>)}

Inputs == Strings(MaxLen) \cup Samples

-----------------------------------------------------------------------------
(* The driver-facing API *)

Alive == reader.fault = ""

\* What an API call returned: res is "ok" (a token, in tok), "unit" (Ok(())),
\* "none" (Iterator: None), "err" (an Error, in err) or "panic"; via says
\* where the token came from: "scan" (the call ran read_next_token), "peek"
\* or "unread" (the buffer, filled by that call), "-" (no token involved).
Returned(op, res, tok, err, via) ==
    [op |-> op, res |-> res, tok |-> tok, err |-> err, via |-> via]

NoCall == Returned("new", "unit", <<>>, <<>>, "-")

\* One read_next_token on the lexer's own state, as the API sees it.
Outcome(r) ==
    LET res == IF r.m.fault # "" THEN "panic" ELSE IF r.ok THEN "ok" ELSE "err" IN
    [res |-> res,
     tok |-> IF res = "ok" THEN Some(r.val) ELSE <<>>,
     err |-> IF res = "err" THEN Some(r.err) ELSE <<>>,
     m |-> r.m]

Scan == Outcome(read_next_token(input, reader, cx.operator))

\* Lexer::peek_token: [res, tok, err, via, m, buf]
\* A peek_token that puts the reader back where the scan of the token began.
peek_token_rewinding ==
    IF is_empty(lookahead)
    THEN Let(Scan, LAMBDA r :
         [res |-> r.res, tok |-> r.tok, err |-> r.err, via |-> "scan",
          m |-> IF r.res = "ok" THEN reader ELSE r.m,
          buf |-> IF r.res = "ok" THEN push_token(lookahead, r.tok[1])
                  ELSE lookahead])
    ELSE [res |-> "ok", tok |-> Some(Head(lookahead)), err |-> <<>>,
          via |-> pushedBy, m |-> reader, buf |-> lookahead]

\* A peek_token that returns the scanned token without buffering it.
peek_token_unbuffered ==
    IF is_empty(lookahead)
    THEN Let(Scan, LAMBDA r :
         [res |-> r.res, tok |-> r.tok, err |-> r.err, via |-> "scan", m |-> r.m,
          buf |-> lookahead])
    ELSE [res |-> "ok", tok |-> Some(Head(lookahead)), err |-> <<>>,
          via |-> pushedBy, m |-> reader, buf |-> lookahead]

\* A peek_token that scans and pushes without looking at the buffer.
peek_token_unguarded ==
    Let(Scan, LAMBDA r :
    LET buf == IF r.res = "ok" THEN push_token(lookahead, r.tok[1])
               ELSE lookahead IN
    [res |-> r.res,
     tok |-> IF r.res = "ok" THEN Some(Head(buf)) ELSE <<>>,
     err |-> r.err,
     via |-> IF is_empty(lookahead) THEN "scan" ELSE pushedBy,
     m |-> r.m, buf |-> buf])

\* A peek_token that buffers the text consumed by a failed scan as a token.
peek_token_partial ==
    IF is_empty(lookahead)
    THEN Let(Scan, LAMBDA r :
         [res |-> r.res, tok |-> r.tok, err |-> r.err, via |-> "scan", m |-> r.m,
          buf |-> IF r.res = "ok" THEN push_token(lookahead, r.tok[1])
                  ELSE IF r.res = "err"
                  THEN push_token(lookahead,
                                  Token(posn(reader), posn(r.m), Punc("EOF")))
                  ELSE lookahead])
    ELSE [res |-> "ok", tok |-> Some(Head(lookahead)), err |-> <<>>,
          via |-> pushedBy, m |-> reader, buf |-> lookahead]

peek_token ==
    IF is_empty(lookahead)
    THEN Let(Scan, LAMBDA r :
         [res |-> r.res, tok |-> r.tok, err |-> r.err, via |-> "scan", m |-> r.m,
          buf |-> IF r.res = "ok" THEN push_token(lookahead, r.tok[1])
                  ELSE lookahead])
    ELSE [res |-> "ok", tok |-> Some(Head(lookahead)), err |-> <<>>,
          via |-> pushedBy, m |-> reader, buf |-> lookahead]

\* Lexer::read_token: [res, tok, err, via, m, buf]
\* A read_token that reads the context before it looks at the buffer.
read_token_reading_context ==
    IF is_empty(lookahead)
    THEN Let(Scan, LAMBDA r :
         [res |-> r.res, tok |-> r.tok, err |-> r.err, via |-> "scan", m |-> r.m,
          buf |-> lookahead])
    ELSE [res |-> "ok", tok |-> Some(Head(lookahead)), err |-> <<>>,
          via |-> pushedBy, m |-> cx_get(reader), buf |-> take_token(lookahead)]

\* A read_token that scans without looking at the buffer.
read_token_unbuffered ==
    Let(Scan, LAMBDA r :
    [res |-> r.res, tok |-> r.tok, err |-> r.err, via |-> "scan", m |-> r.m,
     buf |-> NewBuffer])

read_token ==
    IF is_empty(lookahead)
    THEN Let(Scan, LAMBDA r :
         [res |-> r.res, tok |-> r.tok, err |-> r.err, via |-> "scan", m |-> r.m,
          buf |-> lookahead])
    ELSE [res |-> "ok", tok |-> Some(Head(lookahead)), err |-> <<>>,
          via |-> pushedBy, m |-> reader, buf |-> take_token(lookahead)]

\* History kept beside a call that may have scanned.
Scanned(r) ==
    /\ lastEnd' = IF r.via = "scan" /\ r.res = "ok"
                  THEN r.tok[1].location.end.offset ELSE lastEnd
    /\ pushedBy' = IF r.buf = <<>> THEN "-"
                   ELSE IF lookahead = <<>> THEN "peek" ELSE pushedBy

\* tests::lex2, continued to the end of the input: a fresh lexer over `src`
\* under a fixed context, read_token until EOF or the first failure.
\* [res, toks, err]: the tokens read (EOF included), res "ok" when EOF came.
lex(src, operator) ==
    LET RECURSIVE loop(_, _)
        loop(m, toks) ==
            Let(Outcome(read_next_token(src, m, operator)), LAMBDA r :
            IF r.res # "ok" THEN [res |-> r.res, toks |-> toks, err |-> r.err]
            ELSE IF r.tok[1].value = Punc("EOF")
            THEN [res |-> "ok", toks |-> Append(toks, r.tok[1]), err |-> <<>>]
            ELSE loop(r.m, Append(toks, r.tok[1])))
    IN loop(NewReader, <<>>)

Init ==
    /\ input \in Inputs
    /\ debug \in BOOLEAN
    /\ cx \in [operator : BOOLEAN]
    /\ reader = NewReader
    /\ lookahead = NewBuffer
    /\ held = <<>>
    /\ last = NoCall
    /\ pushedBy = "-"
    /\ lastEnd = 0

\* The driver calls peek_token.
PeekToken ==
    /\ Alive
    /\ \E r \in {peek_token} :
       /\ reader' = r.m
       /\ lookahead' = r.buf
       /\ last' = Returned("peek", r.res, r.tok, r.err, r.via)
       /\ Scanned(r)
    /\ UNCHANGED <<input, debug, cx, held>>

\* The driver calls read_token.
ReadToken ==
    /\ Alive
    /\ \E r \in {read_token} :
       /\ reader' = r.m
       /\ lookahead' = r.buf
       /\ held' = IF r.res = "ok" THEN r.tok ELSE held
       /\ last' = Returned("read", r.res, r.tok, r.err, r.via)
       /\ Scanned(r)
    /\ UNCHANGED <<input, debug, cx>>

\* Lexer::skip_token
SkipToken ==
    /\ Alive
    /\ \E r \in {read_token} :
       /\ reader' = r.m
       /\ lookahead' = r.buf
       /\ last' = Returned("skip", IF r.res = "ok" THEN "unit" ELSE r.res,
                           <<>>, r.err, r.via)
       /\ Scanned(r)
    /\ UNCHANGED <<input, debug, cx, held>>

\* Lexer::repeek_token
RepeekToken ==
    /\ Alive
    /\ IF is_empty(lookahead)
       THEN /\ reader' = Fault(reader, "repeek_token: empty buffer")
            /\ last' = Returned("repeek", "panic", <<>>, <<>>, "-")
       ELSE /\ reader' = reader
            /\ last' = Returned("repeek", "ok", Some(Head(lookahead)), <<>>, pushedBy)
    /\ UNCHANGED <<input, debug, cx, lookahead, held, pushedBy, lastEnd>>

\* Lexer::reread_token
RereadToken ==
    /\ Alive
    /\ IF is_empty(lookahead)
       THEN /\ reader' = Fault(reader, "reread_token: empty buffer")
            /\ last' = Returned("reread", "panic", <<>>, <<>>, "-")
            /\ UNCHANGED <<lookahead, held, pushedBy>>
       ELSE /\ reader' = reader
            /\ lookahead' = take_token(lookahead)
            /\ held' = Some(Head(lookahead))
            /\ last' = Returned("reread", "ok", Some(Head(lookahead)), <<>>, pushedBy)
            /\ pushedBy' = "-"
    /\ UNCHANGED <<input, debug, cx, lastEnd>>

\* Lexer::unread_token, called as the driver may call it: with the token it
\* holds, while the buffer is empty.
UnreadToken ==
    /\ Alive
    /\ held # <<>>
    /\ is_empty(lookahead)
    /\ lookahead' = push_token(lookahead, held[1])
    /\ held' = <<>>
    /\ last' = Returned("unread", "unit", held, <<>>, "-")
    /\ pushedBy' = "unread"
    /\ UNCHANGED <<input, debug, cx, reader, lastEnd>>

\* Iterator::next: [res, tok, via, m, buf], res "ok" for Some(tok), "none"
\* for None.
next ==
    Let(read_token, LAMBDA r :
    LET item == r.res = "ok" /\ r.tok[1].value # Punc("EOF") IN
    [res |-> IF r.res = "panic" THEN "panic" ELSE IF item THEN "ok" ELSE "none",
     tok |-> IF item THEN r.tok ELSE <<>>,
     scanned |-> r, m |-> r.m, buf |-> r.buf])

\* The driver calls Iterator::next.
IterNext ==
    /\ Alive
    /\ \E r \in {next} :
       /\ reader' = r.m
       /\ lookahead' = r.buf
       /\ held' = IF r.res = "ok" THEN r.tok ELSE held
       /\ last' = Returned("next", r.res, r.tok, <<>>, r.scanned.via)
       /\ Scanned(r.scanned)
    /\ UNCHANGED <<input, debug, cx>>

\* The driver writes the shared context cell.
SetContext ==
    /\ Alive
    /\ cx' = [operator |-> ~cx.operator]
    /\ UNCHANGED <<input, debug, reader, lookahead, held, last, pushedBy, lastEnd>>

Next ==
    \/ PeekToken
    \/ ReadToken
    \/ SkipToken
    \/ RepeekToken
    \/ RereadToken
    \/ UnreadToken
    \/ IterNext
    \/ SetContext

Spec == Init /\ [][Next]_vars

-----------------------------------------------------------------------------
(* Number literals: a lexer over the texts of numbers, read to the end *)

\* The longest number text made of the characters below.
NumLen == 3

NumberAlphabet ==
    {Code["0"], Code["1"], Code["8"], Code["x"], Code["X"], Code["o"],
     Code["O"], Code["b"], Code["B"], Code["."], Code["e"], Code["+"]}

NumberSamples ==
    {S(<<"0", "x", "1", "F">>), S(<<"0", "X", "1", "F">>),
     S(<<"0", "x", "b", "B", "1">>), S(<<"0", "O", "1", "7">>),
     S(<<"1", ".", "5", "e", "1", "0">>), S(<<"1", "E", "+", "1", "0">>),
     S(<<".", "5", "e", "-", "1">>), S(<<"0", "1", "8", "1">>),
     S(<<"0", "1", "7", "0">>), S(<<"1", "e", "-">>),
     S(<<"1", ".", "E", "-", "x">>), S(<<"1", "E", "-", "1", "0", "+">>),
     S(<<"3", "i", "n">>), S(<<"0", "b", "1", "8">>)}

NumberInputs ==
    UNION {[1..k -> NumberAlphabet] : k \in 0..NumLen} \cup NumberSamples

\* The context does not matter to a number: the parser expects an operand.
NumberInit ==
    /\ input \in NumberInputs
    /\ debug \in BOOLEAN
    /\ cx = [operator |-> FALSE]
    /\ reader = NewReader
    /\ lookahead = NewBuffer
    /\ held = <<>>
    /\ last = NoCall
    /\ pushedBy = "-"
    /\ lastEnd = 0

NumberNext == ReadToken

NumberSpec == NumberInit /\ [][NumberNext]_vars

-----------------------------------------------------------------------------
(* String literals: a lexer over texts that open with a quote *)

\* The longest text after the opening quote made of the characters below.
StrLen == 3

StringAlphabet ==
    {Code.DQ, Code.SQ, Code.BSL, Code["a"], Code["1"], Code["x"], Code["u"],
     Code["n"], Code.LF, Code.CR}

StringSamples ==
    {S(<<"DQ", "BSL", "u", "0", "0", "4", "1", "DQ">>),
     S(<<"DQ", "BSL", "u", "{", "4", "1", "}", "DQ">>),
     S(<<"DQ", "BSL", "u", "{", "4", "1">>),
     S(<<"SQ", "BSL", "x", "4", "1", "SQ">>),
     S(<<"DQ", "a", "BSL", "CR", "LF", "a", "DQ">>),
     S(<<"SQ", "BSL", "1", "0", "1", "1", "SQ">>),
     S(<<"DQ", "BSL", "LS", "BSL", "n", "DQ", "a">>)}

StringInputs ==
    {<<q>> \o body : q \in {Code.DQ, Code.SQ},
                     body \in UNION {[1..k -> StringAlphabet] : k \in 0..StrLen}}
    \cup StringSamples

\* The context does not matter to a string: the parser expects an operand.
StringInit ==
    /\ input \in StringInputs
    /\ debug \in BOOLEAN
    /\ cx = [operator |-> FALSE]
    /\ reader = NewReader
    /\ lookahead = NewBuffer
    /\ held = <<>>
    /\ last = NoCall
    /\ pushedBy = "-"
    /\ lastEnd = 0

StringNext == ReadToken

StringSpec == StringInit /\ [][StringNext]_vars

-----------------------------------------------------------------------------
(* Regular expression literals: a lexer over texts that open with a slash *)

\* The longest text after the opening slash made of the characters below.
RegLen == 4

RegExpAlphabet ==
    {Code["/"], Code["["], Code["]"], Code.BSL, Code["a"], Code["g"]}

RegExpSamples ==
    {S(<<"/", "a", "/", "BSL", "u", "0", "0", "6", "7">>),
     S(<<"/", "[", "BSL", "]", "/", "]", "/", "g">>),
     S(<<"/", "[", "/", "]", "BSL", "/", "/", "g", "i">>)}

RegExpInputs ==
    {<<Code["/"]>> \o body :
        body \in UNION {[1..k -> RegExpAlphabet] : k \in 0..RegLen}}
    \cup RegExpSamples

\* The parser expects an operand, so a slash opens a regular expression.
RegExpInit ==
    /\ input \in RegExpInputs
    /\ debug \in BOOLEAN
    /\ cx = [operator |-> FALSE]
    /\ reader = NewReader
    /\ lookahead = NewBuffer
    /\ held = <<>>
    /\ last = NoCall
    /\ pushedBy = "-"
    /\ lastEnd = 0

RegExpNext == ReadToken

RegExpSpec == RegExpInit /\ [][RegExpNext]_vars

-----------------------------------------------------------------------------
(* Legacy octal escapes: a lexer over strings that hold a backslash and
   digits *)

\* The longest run of digits after the backslash.
OctLen == 4

OctalAlphabet ==
    {Code["0"], Code["1"], Code["3"], Code["4"], Code["7"], Code["8"]}

OctalInputs ==
    {<<q, Code.BSL>> \o digits \o <<q>> :
        q \in {Code.DQ, Code.SQ},
        digits \in UNION {[1..k -> OctalAlphabet] : k \in 1..OctLen}}

OctalInit ==
    /\ input \in OctalInputs
    /\ debug \in BOOLEAN
    /\ cx = [operator |-> FALSE]
    /\ reader = NewReader
    /\ lookahead = NewBuffer
    /\ held = <<>>
    /\ last = NoCall
    /\ pushedBy = "-"
    /\ lastEnd = 0

OctalNext == ReadToken

OctalSpec == OctalInit /\ [][OctalNext]_vars

-----------------------------------------------------------------------------
(* Unicode escapes: a lexer over a string or a word made of one escape *)

\* The longest run of hex digits between the braces of `\u{...}`.
UniLen == 9

UnicodeAlphabet == {Code["0"], Code["1"]}

\* `\uHHHH` and `\u{H+}` at the ends of the range of characters: the last
\* code point, the first value past it, a surrogate.
UnicodeSamples ==
    {S(<<"0", "0", "4", "1">>), S(<<"D", "8", "0", "0">>),
     S(<<"F", "F", "F", "F">>), S(<<"{", "1", "0", "F", "F", "F", "F", "}">>),
     S(<<"{", "1", "1", "0", "0", "0", "0", "}">>),
     S(<<"{", "D", "8", "0", "0", "}">>),
     S(<<"{", "0", "0", "1", "0", "F", "F", "F", "F", "}">>)}

UnicodeEscapes ==
    {<<Code.BSL, Code["u"]>> \o e :
        e \in {<<Code["{"]>> \o digits \o <<Code["}"]>> :
                  digits \in UNION {[1..k -> UnicodeAlphabet] : k \in 1..UniLen}}
              \cup UnicodeSamples}

\* Each escape as a word and as the body of a string.
UnicodeInputs ==
    UnicodeEscapes \cup {<<Code.DQ>> \o e \o <<Code.DQ>> : e \in UnicodeEscapes}

UnicodeInit ==
    /\ input \in UnicodeInputs
    /\ debug \in BOOLEAN
    /\ cx = [operator |-> FALSE]
    /\ reader = NewReader
    /\ lookahead = NewBuffer
    /\ held = <<>>
    /\ last = NoCall
    /\ pushedBy = "-"
    /\ lastEnd = 0

UnicodeNext == ReadToken

UnicodeSpec == UnicodeInit /\ [][UnicodeNext]_vars

-----------------------------------------------------------------------------
(* Words: a lexer over texts made of identifier characters and escapes *)

\* The longest word text made of the characters below.
WordLen == 4

WordAlphabet ==
    {Code["i"], Code["f"], Code["u"], Code["1"], Code.BSL, Code[";"]}

WordSamples ==
    {S(<<"BSL", "u", "0", "0", "6", "9", "f">>),
     S(<<"i", "BSL", "u", "0", "0", "6", "6">>),
     S(<<"BSL", "u", "0", "0", "6", "9", "BSL", "u", "0", "0", "6", "6", ";">>),
     S(<<"BSL", "u", "{", "6", "9", "}", "f", "1">>),
     S(<<"BSL", "u", "D", "8", "0", "0">>),
     S(<<"f", "BSL", "u", "{", "1", "1", "0", "0", "0", "0", "}">>),
     S(<<"i", "f", "BSL", "u", "0", "0", "3", "1">>)}

WordInputs ==
    UNION {[1..k -> WordAlphabet] : k \in 0..WordLen} \cup WordSamples

WordInit ==
    /\ input \in WordInputs
    /\ debug \in BOOLEAN
    /\ cx = [operator |-> FALSE]
    /\ reader = NewReader
    /\ lookahead = NewBuffer
    /\ held = <<>>
    /\ last = NoCall
    /\ pushedBy = "-"
    /\ lastEnd = 0

WordNext == ReadToken

WordSpec == WordInit /\ [][WordNext]_vars

-----------------------------------------------------------------------------
(* Properties *)

\* A call of read_token that runs the scanner.
FreshRead == ReadToken /\ is_empty(lookahead)

\* Any call that runs the scanner.
FreshScan ==
    is_empty(lookahead) /\ (PeekToken \/ ReadToken \/ SkipToken \/ IterNext)

\* The token of `value` spanning offsets from..to of a one-line input.
Spanning(value, from, to) ==
    [location |-> [start |-> [offset |-> from, line |-> 0, column |-> from],
                   end |-> [offset |-> to, line |-> 0, column |-> to]],
     newline |-> FALSE, value |-> value]

EOFAt(n) == Spanning(Punc("EOF"), n, n)

\* C1: maximal munch.  On an input that is exactly the text of a
\* multi-character punctuator (`/=` read in operator context), the first
\* read_token returns the one token of that kind, spanning the whole text,
\* and the next read_token returns EOF.
C1_MaximalMunch ==
    [][\A p \in Punctuators :
          (/\ FreshRead
           /\ input = S(p[2])
           /\ (p[1] = "SlashAssign" => cx.operator))
          => /\ last'.res = "ok"
             /\ last'.tok[1] = IF reader.offset = 0
                               THEN Spanning(Punc(p[1]), 0, Len(input))
                               ELSE EOFAt(Len(input))]_vars

\* C2: regex/division disambiguation.  With the operator flag false, `/abc/g`
\* is read as the one RegExp token (pattern abc, flags {g}) and then EOF;
\* with the operator flag true, `10/2` is read as DecimalInt("10"), Slash,
\* DecimalInt("2") and then EOF.
C2_RegexOrDivision ==
    [][(/\ FreshRead /\ input = S(<<"/", "a", "b", "c", "/", "g">>)
        /\ ~cx.operator /\ reader.offset \in {0, 6}
        => /\ last'.res = "ok"
           /\ last'.tok[1] =
                IF reader.offset = 0
                THEN Spanning([type |-> "RegExp", pattern |-> S(<<"a", "b", "c">>),
                               flags |-> {Code["g"]}], 0, 6)
                ELSE EOFAt(6))
       /\ (/\ FreshRead /\ input = S(<<"1", "0", "/", "2">>)
           /\ cx.operator /\ reader.offset \in {0, 2, 3, 4}
           => /\ last'.res = "ok"
              /\ last'.tok[1] =
                   CASE reader.offset = 0 ->
                            Spanning(DecimalInt(S(<<"1", "0">>), <<>>), 0, 2)
                     [] reader.offset = 2 -> Spanning(Punc("Slash"), 2, 3)
                     [] reader.offset = 3 ->
                            Spanning(DecimalInt(S(<<"2">>), <<>>), 3, 4)
                     [] OTHER -> EOFAt(4))]_vars

C2_Witness ==
    /\ input = S(<<"1", "0", "/", "2">>)
    /\ last.op = "read" /\ last.via = "scan" /\ last.res = "ok"
    /\ last.tok[1] = Spanning(DecimalInt(S(<<"2">>), <<>>), 3, 4)

\* After the skipped whitespace and comments the input goes on with `/=`.
AtSlashAssign ==
    LET t == skip_trivia(input, reader) IN
    t.ok /\ t.val.c1 = Code["/"] /\ t.val.c2 = Code["="]

\* C3, as claimed: for either value of the context flag, a scan that starts
\* (after skipped whitespace and comments) at `/=` yields SlashAssign.
C3_Original ==
    [][FreshRead /\ AtSlashAssign
       => last'.res = "ok" /\ last'.tok[1].value = Punc("SlashAssign")]_vars

\* C3, amended: a scan that starts at `/=` yields SlashAssign when the
\* operator flag is true; when it is false the `/` starts a regular
\* expression whose body begins with the `=`, and the scan never yields
\* SlashAssign.
C3_SlashAssignInOperatorContext ==
    [][FreshRead /\ AtSlashAssign
       => IF cx.operator
          THEN last'.res = "ok" /\ last'.tok[1].value = Punc("SlashAssign")
          ELSE last'.res = "ok"
               => /\ last'.tok[1].value.type = "RegExp"
                  /\ Len(last'.tok[1].value.pattern) >= 1
                  /\ last'.tok[1].value.pattern[1] = Code["="]]_vars

C3_Witness ==
    /\ input = S(<<"/", "=", "/">>)
    /\ ~cx.operator
    /\ last.op = "read" /\ last.via = "scan" /\ last.res = "ok"
    /\ last.tok[1] = Spanning([type |-> "RegExp", pattern |-> S(<<"=">>),
                               flags |-> {}], 0, 3)

\* C4: round-trip pushback.  unread_token(t) followed by read_token returns
\* t itself (data, span and newline flag), and neither call moves posn().
C4_RoundTrip ==
    [][/\ UnreadToken => posn(reader') = posn(reader)
       /\ (last.op = "unread" /\ ReadToken)
          => /\ last'.res = "ok"
             /\ last'.tok = last.tok
             /\ posn(reader') = posn(reader)
             /\ is_empty(lookahead')]_vars

C4_Witness ==
    /\ last.op = "read" /\ last.via = "unread" /\ last.res = "ok"
    /\ last.tok[1].value # Punc("EOF")
    /\ reader.offset < Len(input)

\* C5: peek_token does not consume.  After a successful peek_token, a
\* further peek_token returns the same token and moves nothing, and the next
\* read_token returns that token, moves nothing and empties the buffer; and
\* a peek_token on an empty buffer returns what read_token would have
\* returned from the same state and leaves the reader where read_token would
\* have: reading after peeking is reading.
C5_PeekDoesNotConsume ==
    [][/\ (last.op = "peek" /\ last.res = "ok" /\ PeekToken)
          => /\ last'.res = "ok" /\ last'.tok = last.tok
             /\ reader' = reader /\ lookahead' = lookahead
       /\ (last.op = "peek" /\ last.res = "ok" /\ ReadToken)
          => /\ last'.res = "ok" /\ last'.tok = last.tok
             /\ reader' = reader /\ is_empty(lookahead')
       /\ (PeekToken /\ is_empty(lookahead))
          => /\ last'.res = read_token.res
             /\ last'.tok = read_token.tok
             /\ last'.err = read_token.err
             /\ reader' = read_token.m]_vars

C5_Witness ==
    /\ last.op = "read" /\ last.via = "peek" /\ last.res = "ok"
    /\ last.tok[1].value # Punc("EOF")
    /\ is_empty(lookahead)

\* C6: the lookahead buffer holds at most one token in every reachable
\* state.
C6_BufferHoldsAtMostOne == Len(lookahead) <= 1

C6_Witness ==
    /\ Len(lookahead) = 1
    /\ last.op = "peek" /\ last.via = "peek"

\* C7: a read_token or peek_token that returns an Error returns no token
\* and leaves the buffer as it was, which is empty.
C7_ErrorLeavesBufferEmpty ==
    [][((ReadToken \/ PeekToken) /\ last'.res = "err")
       => /\ last'.tok = <<>>
          /\ lookahead' = lookahead
          /\ is_empty(lookahead')]_vars

C7_Witness ==
    /\ last.op = "peek" /\ last.res = "err" /\ last.err # <<>>
    /\ is_empty(lookahead)

\* The data of a token sequence.
Data(toks) == [i \in 1..Len(toks) |-> toks[i].value]

Space == <<Code[" "]>>

FirstFails(src, operator) ==
    Outcome(read_next_token(src, NewReader, operator)).res # "ok"

\* C8: whitespace insensitivity.  Once the driver has read a source s to
\* its EOF or to an error: when s lexes to the tokens T under the context,
\* ` s`, `s ` and ` s ` lex to the same token data, and `s;` to the same
\* data with Semi where T has its final EOF (the EOF of `s;` follows it);
\* and when the first token of s fails, so does the first token of each of
\* the four.
C8_WhitespaceInsensitive ==
    (last.op = "read" /\ last.via = "scan" /\ last.res \in {"ok", "err"})
    => LET op == cx.operator
           T == lex(input, op) IN
       /\ T.res = "ok"
          => /\ \A v \in {Space \o input, input \o Space, Space \o input \o Space} :
                  lex(v, op).res = "ok" /\ Data(lex(v, op).toks) = Data(T.toks)
             /\ lex(input \o <<Code[";"]>>, op).res = "ok"
             /\ Data(lex(input \o <<Code[";"]>>, op).toks)
                  = Append([Data(T.toks) EXCEPT ![Len(T.toks)] = Punc("Semi")],
                           Punc("EOF"))
       /\ FirstFails(input, op)
          => \A v \in {Space \o input, input \o Space, Space \o input \o Space,
                       input \o <<Code[";"]>>} : FirstFails(v, op)

\* C9: iteration mode.  Iterator::next yields the token read_token returns
\* unless that is EOF, never yields EOF, and once it has returned None the
\* next call returns None again.
C9_IterationStops ==
    [][IterNext
       => /\ last'.res = "ok"
             => /\ last'.tok = read_token.tok
                /\ last'.tok[1].value # Punc("EOF")
          /\ (read_token.res = "ok" /\ read_token.tok[1].value # Punc("EOF"))
             => last'.res = "ok"
          /\ (last.op = "next" /\ last.res = "none") => last'.res # "ok"]_vars

\* C10: spans of freshly scanned tokens.  Every token has start <= end and
\* starts at or after the end of the token scanned before it; every token
\* but EOF ends strictly after its start; EOF has start = end = posn().
C10_Spans ==
    [][(FreshScan /\ Scan.res = "ok")
       => LET t == Scan.tok[1]
              from == t.location.start
              to == t.location.end IN
          /\ from.offset <= to.offset
          /\ lastEnd <= from.offset
          /\ lastEnd' = to.offset
          /\ t.value # Punc("EOF") => from.offset < to.offset
          /\ t.value = Punc("EOF") => from = to /\ to = posn(reader')]_vars

C10_Witness ==
    /\ last.via = "scan" /\ last.res = "ok"
    /\ last.tok[1].value # Punc("EOF")
    /\ last.tok[1].location.start.offset > 0
    /\ last.tok[1].location.end.offset = lastEnd

\* A line terminator lies between offsets from and to of the input.
NewlineBetween(from, to) ==
    \E i \in (from + 1)..to : is_es_newline(input[i])

\* C11: newline_before.  The newline flag of a token scanned from the end
\* of the token scanned before it (or from the start of the input) is true
\* exactly when a line terminator lies between that end and the start of
\* the token, skipped directly or inside a block comment: whitespace and
\* line comments alone leave it false.  A token that is unread, or peeked,
\* and then read comes back with its flag unchanged.
C11_NewlineBefore ==
    [][/\ (FreshScan /\ reader.offset = lastEnd /\ Scan.res = "ok")
          => Scan.tok[1].newline
                = NewlineBetween(lastEnd, Scan.tok[1].location.start.offset)
       /\ (ReadToken /\ ~is_empty(lookahead))
          => /\ last'.res = "ok"
             /\ last'.tok[1].newline = Head(lookahead).newline
       /\ (last.op = "unread" /\ ReadToken)
          => last'.tok[1].newline = last.tok[1].newline]_vars

C11_Witness ==
    /\ input = S(<<"/", "*", "LF", "*", "/", "1">>)
    /\ last.op = "read" /\ last.via = "unread" /\ last.res = "ok"
    /\ last.tok[1].newline
    /\ last.tok[1].value = DecimalInt(S(<<"1">>), <<>>)

\* A line comment that runs to the end of the input, after whitespace,
\* has left the flag of the EOF token false.
C11_CommentWitness ==
    /\ input = S(<<"a", " ", "/", "/">>)
    /\ last.via = "scan" /\ last.res = "ok"
    /\ last.tok[1].value = Punc("EOF")
    /\ ~last.tok[1].newline

\* After the skipped whitespace and comments the input goes on with `/`.
AtSlash ==
    LET t == skip_trivia(input, reader) IN t.ok /\ t.val.c1 = Code["/"]

\* C12: the scanner never writes the shared context: the context changes
\* only in a write of the driver, whatever peek_token, read_token and
\* unread_token do; and one scan reads the context at most once, and reads
\* it only when the first character after the skipped whitespace and
\* comments is `/`.  A call served from the buffer reads nothing.
C12_ContextReadOnly ==
    [][/\ cx' # cx => SetContext
       /\ (PeekToken \/ ReadToken \/ UnreadToken) => cx' = cx
       /\ FreshScan
          => /\ reader'.gets - reader.gets \in {0, 1}
             /\ reader'.gets # reader.gets => AtSlash
       /\ ~FreshScan => reader'.gets = reader.gets]_vars

C12_Witness ==
    /\ input = S(<<" ", "/", "=", "a">>)
    /\ last.via = "scan" /\ last.res = "ok"
    /\ last.tok[1].value = Punc("SlashAssign")
    /\ reader.gets = 1

\* The first read_token of a lexer over the input.
FirstRead == ReadToken /\ is_empty(lookahead) /\ reader.offset = 0

\* C13, as claimed: `0x1F` is scanned as RadixInt(Hex(UpperCase), "1F").
C13_Original ==
    [][(FirstRead /\ input = S(<<"0", "x", "1", "F">>))
       => /\ last'.res = "ok"
          /\ last'.tok[1].value
               = RadixInt("Hex", Some("UpperCase"), S(<<"1", "F">>))]_vars

\* C13, amended: the case marker is the case of the prefix letter, so `0x1F`
\* is scanned as RadixInt(Hex(LowerCase), "1F") and `0X1F` as
\* RadixInt(Hex(UpperCase), "1F").
C13_HexLiteral ==
    [][/\ (FirstRead /\ input = S(<<"0", "x", "1", "F">>))
          => /\ last'.res = "ok"
             /\ last'.tok[1].value
                  = RadixInt("Hex", Some("LowerCase"), S(<<"1", "F">>))
       /\ (FirstRead /\ input = S(<<"0", "X", "1", "F">>))
          => /\ last'.res = "ok"
             /\ last'.tok[1].value
                  = RadixInt("Hex", Some("UpperCase"), S(<<"1", "F">>))]_vars

C13_Witness ==
    /\ input = S(<<"0", "x", "1", "F">>)
    /\ last.op = "read" /\ last.via = "scan" /\ last.res = "ok"
    /\ last.tok[1]
         = Spanning(RadixInt("Hex", Some("LowerCase"), S(<<"1", "F">>)), 0, 4)

\* The radix a prefix letter selects, by the name the token data gives it.
RadixOf(letter) ==
    CASE letter \in {Code["x"], Code["X"]} -> [name |-> "Hex", radix |-> 16]
      [] letter \in {Code["o"], Code["O"]} -> [name |-> "Oct", radix |-> 8]
      [] letter \in {Code["b"], Code["B"]} -> [name |-> "Bin", radix |-> 2]

\* The longest prefix of s made of digits of the radix.
MaximalRun(s, radix) ==
    LET k == CHOOSE n \in 0..Len(s) :
                 /\ \A i \in 1..n : is_digit(s[i], radix)
                 /\ n < Len(s) => ~is_digit(s[n + 1], radix)
    IN SubSeq(s, 1, k)

\* C14: radix literals.  When the input starts with `0` and a prefix
\* letter (x, X, o, O, b, B), a token the first read_token returns is the
\* RadixInt of that radix whose case marker is the case of the prefix
\* letter, whatever the case of the digits, and whose digits are the
\* longest run of digits of the radix after the prefix; and when such a run
\* is all that follows the prefix, the token is returned.
C14_RadixLiteral ==
    [][(/\ FirstRead
        /\ Len(input) >= 2
        /\ input[1] = Code["0"]
        /\ input[2] \in {Code["x"], Code["X"], Code["o"], Code["O"],
                         Code["b"], Code["B"]})
       => LET r == RadixOf(input[2])
              rest == SubSeq(input, 3, Len(input))
              run == MaximalRun(rest, r.radix)
              flag == IF is_lowercase(input[2]) THEN "LowerCase" ELSE "UpperCase" IN
          /\ last'.res = "ok"
             => /\ run # <<>>
                /\ last'.tok[1] = Spanning(RadixInt(r.name, Some(flag), run),
                                           0, 2 + Len(run))
          /\ (run # <<>> /\ run = rest) => last'.res = "ok"]_vars

C14_Witness ==
    /\ input = S(<<"0", "x", "b", "B", "1">>)
    /\ last.op = "read" /\ last.via = "scan" /\ last.res = "ok"
    /\ last.tok[1].value
         = RadixInt("Hex", Some("LowerCase"), S(<<"b", "B", "1">>))

\* C15: legacy octal.  When the input starts with `0` and a decimal digit,
\* a token the first read_token returns spans the `0` and the run of
\* decimal digits after it, and is RadixInt(Oct, no case marker, the run)
\* when every digit of the run is in 0..7 and DecimalInt("0" + the run, no
\* exponent) otherwise; and when the run is all that follows the `0`, the
\* token is returned: `08` is DecimalInt("08", None), not an error.
C15_LegacyOctal ==
    [][(/\ FirstRead
        /\ Len(input) >= 2
        /\ input[1] = Code["0"]
        /\ is_digit(input[2], 10))
       => LET run == MaximalRun(Tail(input), 10)
              octal == \A i \in 1..Len(run) : is_digit(run[i], 8) IN
          /\ last'.res = "ok"
             => last'.tok[1]
                  = Spanning(IF octal THEN RadixInt("Oct", <<>>, run)
                             ELSE DecimalInt(<<Code["0"]>> \o run, <<>>),
                             0, 1 + Len(run))
          /\ run = Tail(input) => last'.res = "ok"]_vars

C15_Witness ==
    /\ input = S(<<"0", "8">>)
    /\ last.op = "read" /\ last.via = "scan" /\ last.res = "ok"
    /\ last.tok[1] = Spanning(DecimalInt(S(<<"0", "8">>), <<>>), 0, 2)

\* The exponent part of the text s after offset j, read off the text:
\* [ok, exp, end], ok false when the digits are missing.
ExponentAt(s, j) ==
    IF j < Len(s) /\ s[j + 1] \in {Code["e"], Code["E"]}
    THEN LET signed == j + 1 < Len(s) /\ s[j + 2] \in {Code["+"], Code["-"]}
             from == IF signed THEN j + 2 ELSE j + 1
             run == MaximalRun(SubSeq(s, from + 1, Len(s)), 10) IN
         [ok |-> run # <<>>,
          exp |-> Some([e |-> IF s[j + 1] = Code["e"] THEN "LowerCase"
                              ELSE "UpperCase",
                        sign |-> IF ~signed THEN <<>>
                                 ELSE IF s[j + 2] = Code["+"] THEN Some("Plus")
                                 ELSE Some("Minus"),
                        value |-> run]),
          end |-> from + Len(run)]
    ELSE [ok |-> TRUE, exp |-> <<>>, end |-> j]

\* The input starts a decimal literal: a digit that starts neither a radix
\* literal nor a legacy octal one, or a `.` before a digit.
DecimalStart ==
    /\ Len(input) >= 1
    /\ \/ /\ is_digit(input[1], 10)
          /\ ~(/\ input[1] = Code["0"]
               /\ Len(input) >= 2
               /\ \/ is_digit(input[2], 10)
                  \/ input[2] \in {Code["x"], Code["X"], Code["o"], Code["O"],
                                   Code["b"], Code["B"]})
       \/ /\ input[1] = Code["."]
          /\ Len(input) >= 2
          /\ is_digit(input[2], 10)

\* C16: decimal and float literals.  A token the first read_token returns
\* for a decimal literal is DecimalInt(digits, exponent?) when no `.`
\* follows the digits, and Float(int?, frac, exponent?) when one does or
\* when the literal starts with `.`, int absent exactly in that case; the
\* token spans the literal, and is returned when the literal is the whole
\* input.  `1.5e10` is Float("1", "5", {LowerCase, no sign, "10"}).
C16_DecimalLiteral ==
    [][/\ (FirstRead /\ DecimalStart)
          => LET int == MaximalRun(input, 10)
                 dot == Len(int) < Len(input) /\ input[Len(int) + 1] = Code["."]
                 frac == MaximalRun(SubSeq(input, Len(int) + 2, Len(input)), 10)
                 x == ExponentAt(input,
                                 IF dot THEN Len(int) + 1 + Len(frac) ELSE Len(int))
                 value == IF dot
                          THEN Float(IF int = <<>> THEN <<>> ELSE Some(int),
                                     Some(frac), x.exp)
                          ELSE DecimalInt(int, x.exp) IN
             /\ last'.res = "ok"
                => x.ok /\ last'.tok[1] = Spanning(value, 0, x.end)
             /\ (x.ok /\ x.end = Len(input)) => last'.res = "ok"
       /\ (FirstRead /\ input = S(<<"1", ".", "5", "e", "1", "0">>))
          => /\ last'.res = "ok"
             /\ last'.tok[1].value
                  = Float(Some(S(<<"1">>)), Some(S(<<"5">>)),
                          Some([e |-> "LowerCase", sign |-> <<>>,
                                value |-> S(<<"1", "0">>)]))]_vars

C16_Witness ==
    /\ input = S(<<"1", ".", "5", "e", "1", "0">>)
    /\ last.op = "read" /\ last.via = "scan" /\ last.res = "ok"
    /\ last.tok[1]
         = Spanning(Float(Some(S(<<"1">>)), Some(S(<<"5">>)),
                          Some([e |-> "LowerCase", sign |-> <<>>,
                                value |-> S(<<"1", "0">>)])), 0, 6)

UnterminatedString(ch) == [type |-> "UnterminatedString", ch |-> ch]

\* The input opens with a quote.
AtQuote == Len(input) >= 1 /\ input[1] \in {Code.DQ, Code.SQ}

\* C17: unterminated strings.  When the first read_token scans a string
\* literal and yields no String token, it returns UnterminatedString(None)
\* if it stopped at the end of the input and UnterminatedString(Some(ch))
\* if it stopped at a line terminator ch; and a String token ends with the
\* quote that opened it.
C17_UnterminatedString ==
    [][(FirstRead /\ AtQuote)
       => LET at == reader'.offset IN
          /\ (last'.res # "ok" /\ at = Len(input))
             => /\ last'.res = "err"
                /\ last'.err[1] = UnterminatedString(<<>>)
          /\ (last'.res # "ok" /\ at < Len(input) /\ is_es_newline(input[at + 1]))
             => /\ last'.res = "err"
                /\ last'.err[1] = UnterminatedString(Some(input[at + 1]))
          /\ last'.res = "ok"
             => /\ last'.tok[1].value.type = "String"
                /\ input[last'.tok[1].location.end.offset] = input[1]]_vars

\* The text s with every line continuation (a backslash and the line
\* terminator after it, \r\n taken as one) left out.
RECURSIVE StripContinuations(_)
StripContinuations(s) ==
    IF s = <<>> THEN <<>>
    ELSE IF Len(s) >= 3 /\ s[1] = Code.BSL /\ s[2] = Code.CR /\ s[3] = Code.LF
    THEN StripContinuations(SubSeq(s, 4, Len(s)))
    ELSE IF Len(s) >= 2 /\ s[1] = Code.BSL /\ is_es_newline(s[2])
    THEN StripContinuations(SubSeq(s, 3, Len(s)))
    ELSE <<Head(s)>> \o StripContinuations(Tail(s))

\* Every backslash of the text s starts a line continuation.
OnlyContinuations(s) ==
    \A i \in 1..Len(s) :
        s[i] = Code.BSL => i < Len(s) /\ is_es_newline(s[i + 1])

\* C18: string source preservation.  The source of a String token that
\* read_token scans is, character for character, the input from the start
\* of the token's span to its end, quotes, escapes and line continuations
\* included; its value is the text between the quotes when that text has
\* no backslash, and that text without its line continuations when every
\* backslash in it starts one.
C18_StringSource ==
    [][(FreshRead /\ last'.res = "ok" /\ last'.tok[1].value.type = "String")
       => LET t == last'.tok[1]
              from == t.location.start.offset
              to == t.location.end.offset
              body == SubSeq(input, from + 2, to - 1) IN
          /\ from + 2 <= to
          /\ t.value.source = Some(SubSeq(input, from + 1, to))
          /\ OnlyContinuations(body) => t.value.value = StripContinuations(body)]_vars

C18_Witness ==
    /\ input = S(<<"DQ", "a", "BSL", "CR", "LF", "a", "DQ">>)
    /\ last.op = "read" /\ last.via = "scan" /\ last.res = "ok"
    /\ last.tok[1].value
         = [type |-> "String", source |-> Some(input), value |-> S(<<"a", "a">>)]

\* C19: totality.  Every read_token and peek_token returns a token or a
\* typed error: it does not panic, and no loop of the scanner goes round
\* without consuming a character.
C19_Totality ==
    [][(ReadToken \/ PeekToken)
       => /\ last'.res \in {"ok", "err"}
          /\ last'.res = "err" => last'.err[1].type \notin {"Diverges", "Panic"}]_vars

\* C20: unterminated regular expressions.  A scan that starts at `/` with
\* the operator flag false returns a RegExp token only when the `/` that
\* closes the literal follows the pattern in the input and no line
\* terminator is in the pattern; when a line terminator or the end of the
\* input comes first, read_token returns UnterminatedRegExp, with the
\* terminator or with None.
C20_UnterminatedRegExp ==
    [][(FreshRead /\ AtSlash /\ ~cx.operator)
       => /\ last'.res \in {"ok", "err"}
          /\ last'.res = "ok"
             => LET t == last'.tok[1]
                    close == t.location.start.offset + Len(t.value.pattern) + 2 IN
                /\ t.value.type = "RegExp"
                /\ close <= Len(input) /\ input[close] = Code["/"]
                /\ \A i \in 1..Len(t.value.pattern) :
                      ~is_es_newline(t.value.pattern[i])
          /\ (last'.res = "err" /\ last'.err[1].type = "UnterminatedRegExp")
             => last'.err[1].ch
                  = IF reader'.offset = Len(input) THEN <<>>
                    ELSE Some(input[reader'.offset + 1])]_vars

\* The first read_token of a lexer that expects an operand, on an input that
\* opens with a slash that does not open a comment.
AtRegExp ==
    /\ FirstRead
    /\ ~cx.operator
    /\ Len(input) >= 2
    /\ input[1] = Code["/"]
    /\ input[2] \notin {Code["/"], Code["*"]}

\* The grammar of a regular expression body, read off the text: the index
\* in s of the first `/` after the opening one that is neither taken by a
\* backslash before it nor inside a `[...]` class, 0 when there is none.
RECURSIVE ClosingSlash(_, _, _)
ClosingSlash(s, i, in_class) ==
    IF i > Len(s) THEN 0
    ELSE IF s[i] = Code.BSL
    THEN IF i = Len(s) THEN 0 ELSE ClosingSlash(s, i + 2, in_class)
    ELSE IF s[i] = Code["["] /\ ~in_class THEN ClosingSlash(s, i + 1, TRUE)
    ELSE IF s[i] = Code["]"] /\ in_class THEN ClosingSlash(s, i + 1, FALSE)
    ELSE IF s[i] = Code["/"] /\ ~in_class THEN i
    ELSE ClosingSlash(s, i + 1, in_class)

\* The identifier-part characters of s from index i on, up to the first
\* character that is not one.
IdentifierRun(s, i) ==
    LET k == CHOOSE n \in (i - 1)..Len(s) :
                 /\ \A j \in i..n : is_es_identifier_continue(s[j])
                 /\ n < Len(s) => ~is_es_identifier_continue(s[n + 1])
    IN SubSeq(s, i, k)

\* A regular expression whose body holds no line terminator.
OneLineBody(s, close) == \A i \in 2..(close - 1) : ~is_es_newline(s[i])

RegExp(pattern, flags) ==
    [type |-> "RegExp", pattern |-> pattern, flags |-> collect_flags(flags)]

\* C21, as claimed: the token of a closed regular expression has the text
\* between the two slashes as its pattern and the identifier-part characters
\* that directly follow the closing slash as its flags.
C21_Original ==
    [][AtRegExp
       => LET close == ClosingSlash(input, 2, FALSE)
              flags == IdentifierRun(input, close + 1) IN
          (close # 0 /\ OneLineBody(input, close) /\ last'.res = "ok")
          => last'.tok[1]
               = Spanning(RegExp(SubSeq(input, 2, close - 1), flags),
                          0, close + Len(flags))]_vars

\* C21, amended: the literal ends at the first `/` that is neither escaped
\* nor inside a class, and its pattern is the raw text between the slashes.
\* The flags are read as the parts of a word: when no backslash follows the
\* identifier-part characters after the closing slash, the token is
\* returned and they are the flags; a backslash there is read as the start
\* of a unicode escape, so the scan then fails unless `u` follows, and a
\* token it returns extends over the escape.
C21_RegExpBody ==
    [][AtRegExp
       => LET close == ClosingSlash(input, 2, FALSE)
              flags == IdentifierRun(input, close + 1)
              after == close + Len(flags) + 1 IN
          (close # 0 /\ OneLineBody(input, close))
          => IF after <= Len(input) /\ input[after] = Code.BSL
             THEN /\ last'.res = "ok"
                     => /\ last'.tok[1].value.type = "RegExp"
                        /\ last'.tok[1].value.pattern
                             = SubSeq(input, 2, close - 1)
                        /\ last'.tok[1].location.end.offset > after
                  /\ (after = Len(input) \/ input[after + 1] # Code["u"])
                     => /\ last'.res = "err"
                        /\ last'.err[1].type = "IncompleteWordEscape"
             ELSE /\ last'.res = "ok"
                  /\ last'.tok[1]
                       = Spanning(RegExp(SubSeq(input, 2, close - 1), flags),
                                  0, close + Len(flags))]_vars

\* `/[\]/]\//g` has been read as one token: the class keeps `\]` and `/`,
\* the body keeps `\/`, and g is the flag.
C21_Witness ==
    /\ input = S(<<"/", "[", "BSL", "]", "/", "]", "/", "g">>)
    /\ last.op = "read"
    /\ last.res = "ok"
    /\ last.tok[1]
         = Spanning(RegExp(S(<<"[", "BSL", "]", "/", "]">>), S(<<"g">>)), 0, 8)

MissingDigits(letter) ==
    CASE letter \in {Code["x"], Code["X"]} -> [type |-> "MissingHexDigits"]
      [] letter \in {Code["o"], Code["O"]} -> [type |-> "MissingOctalDigits"]
      [] letter \in {Code["b"], Code["B"]} -> [type |-> "MissingBinaryDigits"]

\* C22: missing radix digits.  When the input starts with `0` and a prefix
\* letter (x, X, o, O, b, B) and what follows the prefix is the end of the
\* input or a character that is not a digit of the radix, the first
\* read_token fails with the missing-digits error of the radix.
C22_MissingRadixDigits ==
    [][(/\ FirstRead
        /\ Len(input) >= 2
        /\ input[1] = Code["0"]
        /\ input[2] \in {Code["x"], Code["X"], Code["o"], Code["O"],
                         Code["b"], Code["B"]}
        /\ MaximalRun(SubSeq(input, 3, Len(input)), RadixOf(input[2]).radix)
             = <<>>)
       => /\ last'.res = "err"
          /\ last'.err[1] = MissingDigits(input[2])]_vars

\* C23: the exponent.  In a decimal literal, an `e` or `E` after the integer
\* or fraction part starts the exponent: an optional sign, then decimal
\* digits.  When the input ends after the optional sign the first read_token
\* fails with MissingExponent(None), when another character than a digit is
\* there it fails with MissingExponent(Some(that character)); otherwise a
\* token it returns records the case of the `e`, the sign if there is one
\* and the run of digits, and it is returned unless an identifier-start
\* character follows the digits.
C23_Exponent ==
    [][(FirstRead /\ DecimalStart)
       => LET int == MaximalRun(input, 10)
              dot == Len(int) < Len(input) /\ input[Len(int) + 1] = Code["."]
              frac == MaximalRun(SubSeq(input, Len(int) + 2, Len(input)), 10)
              j == IF dot THEN Len(int) + 1 + Len(frac) ELSE Len(int)
              signed == j + 1 < Len(input)
                        /\ input[j + 2] \in {Code["+"], Code["-"]}
              from == IF signed THEN j + 2 ELSE j + 1
              run == MaximalRun(SubSeq(input, from + 1, Len(input)), 10)
              end == from + Len(run) IN
          (j < Len(input) /\ input[j + 1] \in {Code["e"], Code["E"]})
          => IF from = Len(input)
             THEN /\ last'.res = "err"
                  /\ last'.err[1] = [type |-> "MissingExponent", ch |-> <<>>]
             ELSE IF run = <<>>
             THEN /\ last'.res = "err"
                  /\ last'.err[1] = [type |-> "MissingExponent",
                                     ch |-> Some(input[from + 1])]
             ELSE /\ last'.res = "ok"
                     => /\ last'.tok[1].location.end.offset = end
                        /\ last'.tok[1].value.source.exp
                             = Some([e |-> IF input[j + 1] = Code["e"]
                                           THEN "LowerCase" ELSE "UpperCase",
                                     sign |-> IF ~signed THEN <<>>
                                              ELSE IF input[j + 2] = Code["+"]
                                              THEN Some("Plus")
                                              ELSE Some("Minus"),
                                     value |-> run])
                  /\ last'.res # "ok"
                     => /\ end < Len(input)
                        /\ is_es_identifier_start(input[end + 1])]_vars

\* `1.E-x` has failed with MissingExponent(Some('x')).
C23_Witness ==
    /\ input = S(<<"1", ".", "E", "-", "x">>)
    /\ last.op = "read"
    /\ last.res = "err"
    /\ last.err[1] = [type |-> "MissingExponent", ch |-> Some(Code["x"])]

\* `1E-10+` has given a number whose exponent is {UpperCase, Minus, "10"}.
C23_SignedWitness ==
    /\ input = S(<<"1", "E", "-", "1", "0", "+">>)
    /\ last.op = "read"
    /\ last.res = "ok"
    /\ reader.offset = 5
    /\ last.tok[1].value
         = DecimalInt(S(<<"1">>),
                      Some([e |-> "UpperCase", sign |-> Some("Minus"),
                            value |-> S(<<"1", "0">>)]))

\* The offset at which the number literal that opens the input ends, read
\* off the text: 0 when the input does not open with a number or when the
\* digits of a radix literal or of an exponent are missing.
NumberEnd ==
    IF Len(input) >= 2 /\ input[1] = Code["0"]
       /\ input[2] \in {Code["x"], Code["X"], Code["o"], Code["O"],
                        Code["b"], Code["B"]}
    THEN LET run == MaximalRun(SubSeq(input, 3, Len(input)),
                               RadixOf(input[2]).radix) IN
         IF run = <<>> THEN 0 ELSE 2 + Len(run)
    ELSE IF Len(input) >= 2 /\ input[1] = Code["0"] /\ is_digit(input[2], 10)
    THEN 1 + Len(MaximalRun(Tail(input), 10))
    ELSE IF DecimalStart
    THEN LET int == MaximalRun(input, 10)
             dot == Len(int) < Len(input) /\ input[Len(int) + 1] = Code["."]
             frac == MaximalRun(SubSeq(input, Len(int) + 2, Len(input)), 10)
             x == ExponentAt(input,
                             IF dot THEN Len(int) + 1 + Len(frac) ELSE Len(int))
         IN IF x.ok THEN x.end ELSE 0
    ELSE 0

\* C24, as claimed: `08` is rejected as a malformed literal, with
\* DigitAfterNumber.
C24_Original ==
    [][(FirstRead /\ input = S(<<"0", "8">>))
       => /\ last'.res = "err"
          /\ last'.err[1].type = "DigitAfterNumber"]_vars

\* C24, amended: the guard after a number.  When a number literal of any
\* form opens the input, the first read_token fails with IdAfterNumber(ch)
\* if an identifier-start character ch directly follows the literal, fails
\* with DigitAfterNumber(ch) if a decimal digit ch does, which only a digit
\* outside the radix after a binary or octal literal can be (`0b18`), and
\* returns the number otherwise; the decimal digits after a leading `0` all
\* belong to the literal, so `08` is a number and `3in` is rejected.
C24_NumberGuard ==
    [][/\ (FirstRead /\ NumberEnd > 0)
          => LET ch == IF NumberEnd < Len(input) THEN input[NumberEnd + 1]
                       ELSE None IN
             IF ch # None /\ is_es_identifier_start(ch)
             THEN /\ last'.res = "err"
                  /\ last'.err[1] = [type |-> "IdAfterNumber", char |-> ch]
             ELSE IF ch # None /\ is_digit(ch, 10)
             THEN /\ last'.res = "err"
                  /\ last'.err[1] = [type |-> "DigitAfterNumber", char |-> ch]
                  /\ input[2] \in {Code["o"], Code["O"], Code["b"], Code["B"]}
             ELSE /\ last'.res = "ok"
                  /\ last'.tok[1].value.type = "Number"
                  /\ last'.tok[1].location.end.offset = NumberEnd
       /\ (FirstRead /\ input = S(<<"0", "8">>)) => last'.res = "ok"
       /\ (FirstRead /\ input = S(<<"3", "i", "n">>))
          => /\ last'.res = "err"
             /\ last'.err[1] = [type |-> "IdAfterNumber", char |-> Code["i"]]]_vars

\* `0b18` has failed with DigitAfterNumber('8').
C24_Witness ==
    /\ input = S(<<"0", "b", "1", "8">>)
    /\ last.op = "read"
    /\ last.res = "err"
    /\ last.err[1] = [type |-> "DigitAfterNumber", char |-> Code["8"]]

\* The value of a run of octal digits.
RECURSIVE OctalValue(_)
OctalValue(digits) ==
    IF digits = <<>> THEN 0
    ELSE 8 * OctalValue(SubSeq(digits, 1, Len(digits) - 1))
         + (digits[Len(digits)] - Code["0"])

\* The digits of a legacy octal escape, read off the run of characters after
\* the backslash: its longest prefix of at most three octal digits whose
\* value is at most 255.
OctalEscape(s) ==
    LET k == CHOOSE n \in 0..3 :
                 /\ n <= Len(s)
                 /\ \A i \in 1..n : is_digit(s[i], 8)
                 /\ OctalValue(SubSeq(s, 1, n)) <= 255
                 /\ \/ n = 3
                    \/ n = Len(s)
                    \/ ~is_digit(s[n + 1], 8)
                    \/ OctalValue(SubSeq(s, 1, n + 1)) > 255
    IN SubSeq(s, 1, k)

\* C25: legacy octal escapes.  For a string whose body is a backslash, an
\* octal digit and more digits, the first read_token returns the String
\* token whose value is one character, of the code the escape's digits
\* denote, followed by the digits the escape leaves: the escape takes at
\* most three octal digits and stops before a digit that would take the
\* code past 255, so the code is in 0..255.  `\400` gives the code 32 and
\* then `0`.
C25_OctalEscape ==
    [][/\ (/\ FirstRead
           /\ Len(input) >= 4
           /\ input[1] \in {Code.DQ, Code.SQ}
           /\ input[2] = Code.BSL
           /\ is_digit(input[3], 8)
           /\ input[Len(input)] = input[1]
           /\ \A i \in 3..(Len(input) - 1) : is_digit(input[i], 10))
          => LET digits == SubSeq(input, 3, Len(input) - 1)
                 esc == OctalEscape(digits) IN
             /\ Len(esc) \in 1..3
             /\ OctalValue(esc) \in 0..255
             /\ last'.res = "ok"
             /\ last'.tok[1]
                  = Spanning([type |-> "String", source |-> Some(input),
                              value |-> <<OctalValue(esc)>>
                                        \o SubSeq(digits, Len(esc) + 1, Len(digits))],
                             0, Len(input))
       /\ (FirstRead /\ input = S(<<"DQ", "BSL", "4", "0", "0", "DQ">>))
          => /\ last'.res = "ok"
             /\ last'.tok[1].value.value = <<32, Code["0"]>>]_vars

\* `"\400"` has been read: a space, then `0`.
C25_Witness ==
    /\ input = S(<<"DQ", "BSL", "4", "0", "0", "DQ">>)
    /\ last.op = "read"
    /\ last.res = "ok"
    /\ last.tok[1].value.value = <<32, Code["0"]>>

\* The first value past the code points: 0x110000.
PastLast == 17 * Half

\* The value of a run of hex digits, or PastLast when it is beyond the
\* code points.
RECURSIVE HexValue(_)
HexValue(digits) ==
    IF digits = <<>> THEN 0
    ELSE LET v == 16 * HexValue(SubSeq(digits, 1, Len(digits) - 1))
                  + to_digit(digits[Len(digits)], 16) IN
         IF v > PastLast THEN PastLast ELSE v

\* A value that is a character: a code point that is not a surrogate.
IsChar(v) == v < PastLast /\ ~(55296 <= v /\ v <= 57343)

\* The digits of the `\uHHHH` or `\u{H+}` escape that starts at offset i of
\* the input.
EscapeDigits(i) ==
    IF input[i + 3] = Code["{"]
    THEN SubSeq(input, i + 4,
                (CHOOSE j \in (i + 4)..Len(input) : input[j] = Code["}"]) - 1)
    ELSE SubSeq(input, i + 3, i + 6)

\* C26: the value of a unicode escape.  For `\uHHHH` and for `\u{H+}` with
\* any number of digits, the code point is the value of the hex digits: a
\* string whose body is the escape is read as the String whose value is the
\* character of that value, `?` when the value is not a character, and a
\* word that is the escape is read as the identifier of that character, and
\* fails with IllegalUnicode when the value is not a character.
C26_UnicodeEscapeValue ==
    [][FirstRead
       => /\ input[1] = Code.DQ
             => LET v == HexValue(EscapeDigits(1)) IN
                /\ last'.res = "ok"
                /\ last'.tok[1].value.type = "String"
                /\ last'.tok[1].value.value = <<IF IsChar(v) THEN v ELSE Code["?"]>>
          /\ input[1] = Code.BSL
             => LET v == HexValue(EscapeDigits(0)) IN
                IF IsChar(v)
                THEN /\ last'.res = "ok"
                     /\ last'.tok[1].value = tokenize(<<v>>)
                ELSE /\ last'.res = "err"
                     /\ last'.err[1].type = "IllegalUnicode"
                     /\ v < PastLast => last'.err[1].code = u32(v)]_vars

\* The unicode escape at index i of s (a backslash, then `u`), read off the
\* text: [ok, value, next], ok when it is `\uHHHH` or `\u{H+}` with at most
\* seven digits, next the index after it.
HexEscape(s, i) ==
    LET Hex(j) == j <= Len(s) /\ is_digit(s[j], 16) IN
    IF i + 2 <= Len(s) /\ s[i + 2] = Code["{"]
    THEN LET close == CHOOSE j \in (i + 3)..(Len(s) + 1) :
                          /\ \A k \in (i + 3)..(j - 1) : Hex(k)
                          /\ ~Hex(j) IN
         IF close <= Len(s) /\ s[close] = Code["}"] /\ close - (i + 3) \in 1..7
         THEN [ok |-> TRUE, value |-> HexValue(SubSeq(s, i + 3, close - 1)),
               next |-> close + 1]
         ELSE [ok |-> FALSE, value |-> 0, next |-> i]
    ELSE IF \A j \in (i + 2)..(i + 5) : Hex(j)
    THEN [ok |-> TRUE, value |-> HexValue(SubSeq(s, i + 2, i + 5)),
          next |-> i + 6]
    ELSE [ok |-> FALSE, value |-> 0, next |-> i]

\* The word that starts the text s, read off the text from index i on with
\* `name` decoded so far: the longest run of identifier-part characters and
\* escapes.  kind is "word" (name, and end, the offset after it),
\* "incomplete" (a backslash without `u`; ch what follows it), "illegal" (an
\* escape whose value is no character) or "malformed" (an escape whose
\* digits are not as HexEscape has them).
RECURSIVE WordAt(_, _, _)
WordAt(s, i, name) ==
    IF i > Len(s) THEN [kind |-> "word", name |-> name, end |-> Len(s)]
    ELSE IF s[i] = Code.BSL
    THEN IF i = Len(s) THEN [kind |-> "incomplete", ch |-> <<>>]
         ELSE IF s[i + 1] # Code["u"]
         THEN [kind |-> "incomplete", ch |-> Some(s[i + 1])]
         ELSE LET esc == HexEscape(s, i) IN
              IF ~esc.ok THEN [kind |-> "malformed"]
              ELSE IF ~IsChar(esc.value)
              THEN [kind |-> "illegal", code |-> esc.value]
              ELSE WordAt(s, esc.next, Append(name, esc.value))
    ELSE IF is_es_identifier_continue(s[i]) THEN WordAt(s, i + 1, Append(name, s[i]))
    ELSE [kind |-> "word", name |-> name, end |-> i - 1]

\* C27: words.  When the input starts with an identifier-start character or
\* a backslash, the first read_token reads the longest run of
\* identifier-part characters and escapes: it fails with
\* IncompleteWordEscape(what follows the backslash) at a backslash without
\* `u`, with IllegalUnicode(value) at an escape whose value is no
\* character, and otherwise returns, spanning the run, the reserved word or
\* identifier that the decoded name is: `\u0069f` is the reserved word `if`.
C27_Words ==
    [][/\ (/\ FirstRead
           /\ Len(input) >= 1
           /\ input[1] = Code.BSL \/ is_es_identifier_start(input[1]))
          => LET w == WordAt(input, 1, <<>>) IN
             CASE w.kind = "word" ->
                    /\ last'.res = "ok"
                    /\ last'.tok[1] = Spanning(tokenize(w.name), 0, w.end)
               [] w.kind = "incomplete" ->
                    /\ last'.res = "err"
                    /\ last'.err[1] = [type |-> "IncompleteWordEscape", ch |-> w.ch]
               [] w.kind = "illegal" ->
                    /\ last'.res = "err"
                    /\ last'.err[1] = [type |-> "IllegalUnicode", code |-> u32(w.code)]
               [] w.kind = "malformed" -> TRUE
       /\ (FirstRead /\ input = S(<<"BSL", "u", "0", "0", "6", "9", "f">>))
          => /\ last'.res = "ok"
             /\ last'.tok[1].value = [type |-> "Reserved", word |-> S(<<"i", "f">>)]]_vars

\* `\u0069f` has been read as the reserved word `if`.
C27_Witness ==
    /\ input = S(<<"BSL", "u", "0", "0", "6", "9", "f">>)
    /\ last.op = "read"
    /\ last.res = "ok"
    /\ last.tok[1] = Spanning([type |-> "Reserved", word |-> S(<<"i", "f">>)], 0, 7)

\* The assertions of the scanner, by the names their failures go by.
ScannerAssertions ==
    {"reread", "skip_newlines", "read_newline_into", "read_digit_into",
     "read_word", "read_word: empty", "read_radix_int: 0",
     "read_radix_int: prefix", "read_number: digit",
     "read_number() called at EOF", "read_string"}

\* C28: internal preconditions.  Whatever the input and the context flag,
\* no assertion of the scanner fails: reread(ch) is called only while the
\* current character is ch, read_number is not entered at the end of the
\* input, read_word decodes a name that is not empty.
C28_Preconditions == reader.fault \notin ScannerAssertions

\* C29: the position and the buffer.  Right after a call that scanned a
\* token (read_token on an empty buffer, peek_token that fills it), posn()
\* is the end of the span of that token; so while a token that peek_token
\* put in the buffer is there, posn() is the position after that token; and
\* unread_token leaves posn() where it was.
C29_PositionAfterScan ==
    [][/\ (FreshScan /\ last'.res = "ok")
          => posn(reader') = last'.tok[1].location.end
       /\ (~is_empty(lookahead') /\ pushedBy' = "peek")
          => posn(reader') = Head(lookahead').location.end
       /\ UnreadToken => posn(reader') = posn(reader)]_vars

\* A token that peek_token scanned is in the buffer, and posn() is past it.
C29_Witness ==
    /\ ~is_empty(lookahead)
    /\ pushedBy = "peek"
    /\ last.op = "peek"
    /\ Head(lookahead).value # Punc("EOF")
    /\ posn(reader) = Head(lookahead).location.end
    /\ posn(reader).offset > Head(lookahead).location.start.offset

\* C30: a buffered token is not classified again.  A write of the context
\* leaves the buffer and the reader alone, and a read_token that finds a
\* token in the buffer, put there by peek_token or by unread_token, returns
\* that token as it is and empties the buffer without reading the context
\* or the input, whatever the context flag is by then; a read_token that
\* finds the buffer empty scans under the context flag of that moment.
C30_BufferedTokenKept ==
    [][/\ SetContext => UNCHANGED <<lookahead, reader>>
       /\ (ReadToken /\ ~is_empty(lookahead))
          => /\ last'.res = "ok"
             /\ last'.tok = Some(Head(lookahead))
             /\ is_empty(lookahead')
             /\ reader' = reader
       /\ (ReadToken /\ is_empty(lookahead))
          => LET r == Outcome(read_next_token(input, reader, cx.operator)) IN
             /\ last'.res = r.res
             /\ last'.tok = r.tok
             /\ reader' = r.m]_vars

\* On `/=/`, read_token has returned the `/=` that peek_token scanned while
\* the flag was true, the flag being false by now; the context was read
\* once, by that scan.
C30_Witness ==
    /\ input = S(<<"/", "=", "/">>)
    /\ ~cx.operator
    /\ last.op = "read"
    /\ last.via = "peek"
    /\ last.tok = Some(Spanning(Punc("SlashAssign"), 0, 2))
    /\ is_empty(lookahead)
    /\ reader.offset = 2
    /\ reader.gets = 1

====
